---- MODULE Spec2Model ----
(***************************************************************************)
(* agentswarm: the supervisor control plane (process table, promotion      *)
(* admission and queue, crash recovery, scaling, config reload), the       *)
(* daemon state machine, and the quota probe and health monitor as the     *)
(* supervisor wires them.                                                  *)
(*                                                                         *)
(* JavaScript runs every handler to completion, and EventEmitter.emit      *)
(* calls its listeners synchronously.  Each handler (an API call, a timer  *)
(* callback, a child-process event) is therefore one action; the nested    *)
(* calls it makes are operators from a world record to a world record.     *)
(***************************************************************************)
EXTENDS Integers, Sequences, FiniteSets, TLC

\* ---------------------------------------------------------------- bounds
MaxDaemons == 2      \* daemon objects ever created (agentIds are never reused)
MaxLive == 2         \* child processes of one daemon whose exit is still pending
MaxTokens == 1       \* aggregate token total explored
MaxTicks == 1        \* clock ticks explored
MaxStarts == 2       \* start() calls explored

\* ------------------------------------------------------ program constants
Count == 1                     \* config.count of the modelled supervisor
TickMs == 2000                 \* one clock tick: the shortest backoff delay, 2^1 s
HeartbeatIntervalMs == 500     \* config.heartbeatIntervalMs of the modelled supervisor
ReloadedIntervalMs == 250      \* a heartbeatIntervalMs given to reloadConfig
HeartbeatIntervals == {HeartbeatIntervalMs, ReloadedIntervalMs}
MissThreshold == 3
StableResetMs == 300000
DegradedWindowMs == 1800000
MaxBackoffSec == 300
MaxRestartsInWindow == 5
WarningPct == 80

DaemonIds == 1..MaxDaemons
NoId == 0
Null == 0                      \* a null timestamp

IDLE == "idle"
PROMOTING == "promoting"
ACTIVE == "active"
DEMOTING == "demoting"
CRASHED == "crashed"
NONE == "none"                 \* no daemon object with this id exists (yet)

DaemonState == {IDLE, PROMOTING, ACTIVE, DEMOTING, CRASHED}

\* A task {role, prompt}.  The prompt "nul" holds a NUL byte: child_process.spawn
\* rejects such an argument by throwing synchronously.
NullTask == [role |-> "-", prompt |-> "-"]
OkTask == [role |-> "builder", prompt |-> "ok"]
NulTask == [role |-> "builder", prompt |-> "nul"]
Tasks == {OkTask}
TokenAmounts == {0, 1}
MaxActiveValues == {1, 2}
BudgetValues == {0, 1, 2}

\* Processes that may hold the pidfile: the supervisors' own processes, and
\* one that has exited.  The pidfile holds a pid, or does not exist.
SupIds == {1, 2}
SelfPid == 1                   \* process.pid of the modelled supervisor
OtherPid == 2
DeadPid == 3
NoPid == 0
Pids == SupIds \cup {DeadPid}

\* A supervisor process seen from the file system: where it stands inside
\* start() or stop(), whether the process lives, its running flag, the pid it
\* read from the pidfile, and how its last start() ended.
NoSup == [pc |-> "idle", alive |-> FALSE, running |-> FALSE,
          existingPid |-> NoPid, result |-> "-"]

\* Endpoints of the in-process message bus sharing one hub; endpoint e has
\* agentId e.  An endpoint's record: its connected flag, the channels it has
\* joined, and how many of its listeners are registered on the hub.
BusIds == {1, 2}
NoEndpoint == [connected |-> FALSE, channels |-> {}, listeners |-> 0]
NoBus == [e \in BusIds |-> NoEndpoint]

VARIABLES
  running, maxActive, tokenBudget, tokensUsed, activeCount, promotionsPaused,
  promotionQueue, processTable, persist, alertListeners,
  daemons, nextId, timers, health, hmRunning, probe, disk, workspaces,
  now, halted, log, approvals, pidfile, sups, bus,
  heartbeatIntervalMs, hmIntervalMs

vars == <<running, maxActive, tokenBudget, tokensUsed, activeCount, promotionsPaused,
          promotionQueue, processTable, persist, alertListeners,
          daemons, nextId, timers, health, hmRunning, probe, disk, workspaces,
          now, halted, log, approvals, pidfile, sups, bus,
          heartbeatIntervalMs, hmIntervalMs>>

\* ---------------------------------------------------------------- world
\* The state a handler works on.  log and approvals record what the current
\* handler emitted (events, and the supervisor's log records) and approved;
\* thrown is an exception propagating to the handler's caller.
World ==
  [running |-> running, maxActive |-> maxActive, tokenBudget |-> tokenBudget,
   tokensUsed |-> tokensUsed, activeCount |-> activeCount,
   promotionsPaused |-> promotionsPaused, promotionQueue |-> promotionQueue,
   processTable |-> processTable, persist |-> persist,
   alertListeners |-> alertListeners, daemons |-> daemons, nextId |-> nextId,
   timers |-> timers, health |-> health, hmRunning |-> hmRunning, probe |-> probe,
   disk |-> disk, workspaces |-> workspaces, now |-> now, halted |-> halted,
   pidfile |-> pidfile, bus |-> bus,
   heartbeatIntervalMs |-> heartbeatIntervalMs, hmIntervalMs |-> hmIntervalMs,
   log |-> <<>>, approvals |-> <<>>, thrown |-> FALSE]

Commit(w) ==
  /\ running' = w.running
  /\ maxActive' = w.maxActive
  /\ tokenBudget' = w.tokenBudget
  /\ tokensUsed' = w.tokensUsed
  /\ activeCount' = w.activeCount
  /\ promotionsPaused' = w.promotionsPaused
  /\ promotionQueue' = w.promotionQueue
  /\ processTable' = w.processTable
  /\ persist' = w.persist
  /\ alertListeners' = w.alertListeners
  /\ daemons' = w.daemons
  /\ nextId' = w.nextId
  /\ timers' = w.timers
  /\ health' = w.health
  /\ hmRunning' = w.hmRunning
  /\ probe' = w.probe
  /\ disk' = w.disk
  /\ workspaces' = w.workspaces
  /\ now' = w.now
  /\ halted' = w.halted
  /\ log' = w.log
  /\ approvals' = w.approvals
  /\ pidfile' = w.pidfile
  /\ sups' = sups
  /\ bus' = w.bus
  /\ heartbeatIntervalMs' = w.heartbeatIntervalMs
  /\ hmIntervalMs' = w.hmIntervalMs

\* The explored part of the state space: counters stay within the bounds.
InBounds(w) ==
  /\ w.nextId <= MaxDaemons + 1
  /\ \A d \in DaemonIds : w.daemons[d].live <= MaxLive
  /\ w.probe.totalTokens <= MaxTokens
  /\ w.alertListeners <= MaxStarts

Emit(w, ev, d, info) ==
  [w EXCEPT !.log = Append(@, [ev |-> ev, agent |-> d, info |-> info, n |-> 0])]

EmitN(w, ev, d, k) ==
  [w EXCEPT !.log = Append(@, [ev |-> ev, agent |-> d, info |-> "", n |-> k])]

Throw(w) == [Emit(w, "throw", NoId, "") EXCEPT !.thrown = TRUE]

Min(a, b) == IF a < b THEN a ELSE b
Max(a, b) == IF a > b THEN a ELSE b

RECURSIVE Pow2(_)
Pow2(n) == IF n = 0 THEN 1 ELSE 2 * Pow2(n - 1)

\* ------------------------------------------------------- process table
\* A Map keeps insertion order: the table is the sequence of its entries.
EntryIndex(w, agentId) ==
  IF \E i \in 1..Len(w.processTable) : w.processTable[i].agentId = agentId
  THEN CHOOSE i \in 1..Len(w.processTable) : w.processTable[i].agentId = agentId
  ELSE 0

HasEntry(w, agentId) == EntryIndex(w, agentId) # 0

RemoveAt(s, i) == [j \in 1..(Len(s) - 1) |-> IF j < i THEN s[j] ELSE s[j + 1]]

TableDelete(w, agentId) ==
  IF HasEntry(w, agentId)
  THEN [w EXCEPT !.processTable = RemoveAt(@, EntryIndex(w, agentId))]
  ELSE w

TableIds(w) == {w.processTable[i].agentId : i \in 1..Len(w.processTable)}

\* _handleCrash giving up one crash early (restartCount >= 5).
handleCrash_EarlyDegrade(w, agentId) ==
  LET i == EntryIndex(w, agentId) IN
  IF i = 0 THEN w
  ELSE
    LET e == w.processTable[i] IN
    IF e.restartScheduled THEN w
    ELSE
      LET rc1 == e.restartCount + 1
          first1 == IF e.firstRestartAt = Null THEN w.now ELSE e.firstRestartAt
          burst == e.stableSince # Null /\ (w.now - e.stableSince) > StableResetMs
          rc == IF burst THEN 1 ELSE rc1
          first == IF burst THEN w.now ELSE first1
          e1 == [e EXCEPT !.restartCount = rc, !.firstRestartAt = first]
      IN
      IF rc >= MaxRestartsInWindow /\ (w.now - first) < DegradedWindowMs
      THEN EmitN([w EXCEPT !.processTable[i] = e1], "agent-degraded", agentId, rc)
      ELSE
        LET delaySec == Min(Pow2(rc), MaxBackoffSec)
            t == [agentId |-> agentId, restartCount |-> rc, firstRestartAt |-> first,
                  fireAt |-> w.now + delaySec * 1000, afterStop |-> FALSE]
        IN EmitN([w EXCEPT !.processTable[i] = [e1 EXCEPT !.restartScheduled = TRUE],
                           !.timers = @ \cup {t}],
                 "agent_restart_scheduled", agentId, delaySec)

\* _handleCrash without the restartScheduled guard.
handleCrash_NoGuard(w, agentId) ==
  LET i == EntryIndex(w, agentId) IN
  IF i = 0 THEN w
  ELSE
    LET e == w.processTable[i]
        rc1 == e.restartCount + 1
        first1 == IF e.firstRestartAt = Null THEN w.now ELSE e.firstRestartAt
        burst == e.stableSince # Null /\ (w.now - e.stableSince) > StableResetMs
        rc == IF burst THEN 1 ELSE rc1
        first == IF burst THEN w.now ELSE first1
        e1 == [e EXCEPT !.restartCount = rc, !.firstRestartAt = first]
    IN
    IF rc > MaxRestartsInWindow /\ (w.now - first) < DegradedWindowMs
    THEN EmitN([w EXCEPT !.processTable[i] = e1], "agent-degraded", agentId, rc)
    ELSE
      LET delaySec == Min(Pow2(rc), MaxBackoffSec)
          t == [agentId |-> agentId, restartCount |-> rc, firstRestartAt |-> first,
                fireAt |-> w.now + delaySec * 1000, afterStop |-> FALSE]
      IN EmitN([w EXCEPT !.processTable[i] = [e1 EXCEPT !.restartScheduled = TRUE],
                         !.timers = @ \cup {t}],
               "agent_restart_scheduled", agentId, delaySec)

\* _handleCrash without the burst reset.
handleCrash_NoBurstReset(w, agentId) ==
  LET i == EntryIndex(w, agentId) IN
  IF i = 0 THEN w
  ELSE
    LET e == w.processTable[i] IN
    IF e.restartScheduled THEN w
    ELSE
      LET rc == e.restartCount + 1
          first == IF e.firstRestartAt = Null THEN w.now ELSE e.firstRestartAt
          e1 == [e EXCEPT !.restartCount = rc, !.firstRestartAt = first]
      IN
      IF rc > MaxRestartsInWindow /\ (w.now - first) < DegradedWindowMs
      THEN EmitN([w EXCEPT !.processTable[i] = e1], "agent-degraded", agentId, rc)
      ELSE
        LET delaySec == Min(Pow2(rc), MaxBackoffSec)
            t == [agentId |-> agentId, restartCount |-> rc, firstRestartAt |-> first,
                  fireAt |-> w.now + delaySec * 1000, afterStop |-> FALSE]
        IN EmitN([w EXCEPT !.processTable[i] = [e1 EXCEPT !.restartScheduled = TRUE],
                           !.timers = @ \cup {t}],
                 "agent_restart_scheduled", agentId, delaySec)

\* ------------------------------------------------------ crash recovery
\* Supervisor._handleCrash: backoff, burst reset, degradation.  The restart
\* timer's closure keeps the entry object; after scheduling nothing writes
\* the entry's counters again, so the timer carries their values.
handleCrash(w, agentId) ==
  LET i == EntryIndex(w, agentId) IN
  IF i = 0 THEN w
  ELSE
    LET e == w.processTable[i] IN
    IF e.restartScheduled THEN w
    ELSE
      LET rc1 == e.restartCount + 1
          first1 == IF e.firstRestartAt = Null THEN w.now ELSE e.firstRestartAt
          burst == e.stableSince # Null /\ (w.now - e.stableSince) > StableResetMs
          rc == IF burst THEN 1 ELSE rc1
          first == IF burst THEN w.now ELSE first1
          e1 == [e EXCEPT !.restartCount = rc, !.firstRestartAt = first]
      IN
      IF rc > MaxRestartsInWindow /\ (w.now - first) < DegradedWindowMs
      THEN EmitN([w EXCEPT !.processTable[i] = e1], "agent-degraded", agentId, rc)
      ELSE
        LET delaySec == Min(Pow2(rc), MaxBackoffSec)
            t == [agentId |-> agentId, restartCount |-> rc, firstRestartAt |-> first,
                  fireAt |-> w.now + delaySec * 1000, afterStop |-> FALSE]
        IN EmitN([w EXCEPT !.processTable[i] = [e1 EXCEPT !.restartScheduled = TRUE],
                           !.timers = @ \cup {t}],
                 "agent_restart_scheduled", agentId, delaySec)

\* record() that counts the tokens but never reports exhaustion.
probeRecord_NoExhaustion(w, agentId, tokens) ==
  [w EXCEPT !.probe.totalTokens = @ + tokens]

\* ---------------------------------------------------------- quota probe
\* record() without the warning latch.
probeRecord_WarnAlways(w, agentId, tokens) ==
  LET total == w.probe.totalTokens + tokens
      w1 == [w EXCEPT !.probe.totalTokens = total]
  IN
  IF w1.probe.budget > 0
  THEN IF total >= w1.probe.budget
       THEN [Emit(w1, "budget_exhausted", agentId, "") EXCEPT !.promotionsPaused = TRUE]
       ELSE IF 100 * total >= WarningPct * w1.probe.budget
            THEN Emit([w1 EXCEPT !.probe.warningEmitted = TRUE], "budget_warning", agentId, "")
            ELSE w1
  ELSE w1

\* QuotaProbe.record with the token estimate already computed from the result,
\* and the budget_exhausted listener attachQuotaProbe installs.
probeRecord(w, agentId, tokens) ==
  LET total == w.probe.totalTokens + tokens
      w1 == [w EXCEPT !.probe.totalTokens = total]
  IN
  IF w1.probe.budget > 0
  THEN IF total >= w1.probe.budget
       THEN [Emit(w1, "budget_exhausted", agentId, "") EXCEPT !.promotionsPaused = TRUE]
       ELSE IF 100 * total >= WarningPct * w1.probe.budget /\ ~w1.probe.warningEmitted
            THEN Emit([w1 EXCEPT !.probe.warningEmitted = TRUE], "budget_warning", agentId, "")
            ELSE w1
  ELSE w1

\* The done/fail listener of attachQuotaProbe.wireAgent: record, then sync.
quotaOnResult(w, agentId, tokens) ==
  IF w.probe.attached
  THEN LET w1 == probeRecord(w, agentId, tokens)
       IN [w1 EXCEPT !.tokensUsed = w1.probe.totalTokens]
  ELSE w

\* -------------------------------------------------------- health monitor
NoHealth == [reg |-> FALSE, lastSeen |-> Null, status |-> "-", consecutiveMisses |-> 0]

hmRegister(w, agentId) ==
  [w EXCEPT !.health[agentId] =
     [reg |-> TRUE, lastSeen |-> w.now, status |-> "alive", consecutiveMisses |-> 0]]

hmUnregister(w, agentId) == [w EXCEPT !.health[agentId] = NoHealth]

\* heartbeat() that does not revive a record declared dead.
hmHeartbeat_KeepDead(w, agentId) ==
  IF w.health[agentId].reg
  THEN [w EXCEPT !.health[agentId].lastSeen = w.now,
                 !.health[agentId].consecutiveMisses = 0,
                 !.health[agentId].status = IF @ = "dead" THEN "dead" ELSE "alive"]
  ELSE w

hmHeartbeat(w, agentId) ==
  IF w.health[agentId].reg
  THEN [w EXCEPT !.health[agentId].lastSeen = w.now,
                 !.health[agentId].consecutiveMisses = 0,
                 !.health[agentId].status = "alive"]
  ELSE w

\* The supervisor's 'alert' listener, once per start() that registered one.
RECURSIVE handleHealthAlert(_, _, _)
handleHealthAlert(w, agentId, k) ==
  IF k = 0 THEN w ELSE handleHealthAlert(handleCrash(w, agentId), agentId, k - 1)

\* check() without the latch: an alert at every check past the threshold.
RECURSIVE hmCheckFrom_NoLatch(_, _)
hmCheckFrom_NoLatch(w, agentId) ==
  IF agentId > MaxDaemons THEN w
  ELSE
    LET h == w.health[agentId]
        since == w.now - h.lastSeen
        missed == since \div w.hmIntervalMs
        w1 == IF h.reg /\ since > w.hmIntervalMs
              THEN LET wm == [w EXCEPT !.health[agentId].consecutiveMisses = missed] IN
                   IF missed >= MissThreshold
                   THEN handleHealthAlert(
                          Emit([wm EXCEPT !.health[agentId].status = "dead"],
                               "alert", agentId, "unresponsive"),
                          agentId, w.alertListeners)
                   ELSE IF h.status # "dead"
                        THEN [wm EXCEPT !.health[agentId].status = "unresponsive"]
                        ELSE wm
              ELSE w
    IN hmCheckFrom_NoLatch(w1, agentId + 1)

\* HealthMonitor.check, for the records from agentId on (Map order is
\* registration order, and agentIds are handed out in increasing order).
RECURSIVE hmCheckFrom(_, _)
hmCheckFrom(w, agentId) ==
  IF agentId > MaxDaemons THEN w
  ELSE
    LET h == w.health[agentId]
        since == w.now - h.lastSeen
        missed == since \div w.hmIntervalMs
        w1 == IF h.reg /\ since > w.hmIntervalMs
              THEN LET wm == [w EXCEPT !.health[agentId].consecutiveMisses = missed] IN
                   IF missed >= MissThreshold
                   THEN IF h.status # "dead"
                        THEN handleHealthAlert(
                               Emit([wm EXCEPT !.health[agentId].status = "dead"],
                                    "alert", agentId, "unresponsive"),
                               agentId, w.alertListeners)
                        ELSE wm
                   ELSE IF h.status # "dead"
                        THEN [wm EXCEPT !.health[agentId].status = "unresponsive"]
                        ELSE wm
              ELSE w
    IN hmCheckFrom(w1, agentId + 1)

hmCheck(w) == hmCheckFrom(w, 1)

\* ---------------------------------------------------------------- daemon
NoDaemon ==
  [name |-> 0 - 1, state |-> NONE, currentTask |-> NullTask, claudeProcess |-> FALSE,
   live |-> 0, hbTimer |-> FALSE, wired |-> FALSE, role |-> "-",
   heartbeatIntervalMs |-> HeartbeatIntervalMs]

startHeartbeat(w, d) == [w EXCEPT !.daemons[d].hbTimer = TRUE]

stopHeartbeat(w, d) == [w EXCEPT !.daemons[d].hbTimer = FALSE]

\* Daemon.start
daemonStart(w, d) ==
  Emit(startHeartbeat([w EXCEPT !.daemons[d].state = IDLE], d), "started", d, "")

\* Daemon.stop: the child is sent SIGTERM and the reference dropped; the child's
\* exit listener stays installed and runs when the process ends.
daemonStop(w, d) ==
  Emit([stopHeartbeat(w, d) EXCEPT !.daemons[d].claudeProcess = FALSE,
                                   !.daemons[d].state = IDLE,
                                   !.daemons[d].currentTask = NullTask],
       "stopped", d, "")

\* matchesRole in which general is a role like any other.
matchesRole_GeneralIsARole(role, task) ==
  IF task = NullTask \/ task.role = "-"
  THEN FALSE
  ELSE task.role = role

\* Daemon.matchesRole
matchesRole(role, task) ==
  IF task = NullTask \/ task.role = "-"
  THEN role = "general"
  ELSE task.role = role \/ role = "general"

\* Daemon._handleClaudeError.  The quota listener records the fail result, which
\* carries no output (0 tokens); the supervisor's crashed listener follows.
handleClaudeError(w, d) ==
  LET w1 == Emit([w EXCEPT !.daemons[d].state = CRASHED], "fail", d, "error")
      w2 == IF w1.daemons[d].wired THEN quotaOnResult(w1, d, 0) ELSE w1
      w3 == Emit(w2, "crashed", d, "")
  IN IF w3.daemons[d].wired THEN handleCrash(w3, d) ELSE w3

\* The supervisor's promoted listener.
onPromoted(w, d) ==
  EmitN([w EXCEPT !.activeCount = @ + 1], "agent_promoted", d, w.activeCount + 1)

\* What the supervisor's state was at the moment a daemon became active.
Approval(w, d) ==
  [agent |-> d, paused |-> w.promotionsPaused, activeCount |-> w.activeCount,
   maxActive |-> w.maxActive, tokenBudget |-> w.tokenBudget, tokensUsed |-> w.tokensUsed]

\* Daemon._spawnClaude: spawn throws on a NUL byte in the prompt (the catch
\* branch); otherwise the child exists and promoted is emitted.
spawnClaude(w, d) ==
  LET w1 == stopHeartbeat([w EXCEPT !.daemons[d].state = ACTIVE,
                                    !.approvals = Append(@, Approval(w, d))], d)
  IN
  IF w1.daemons[d].currentTask.prompt = "nul"
  THEN handleClaudeError(w1, d)
  ELSE LET w2 == Emit([w1 EXCEPT !.daemons[d].claudeProcess = TRUE,
                                 !.daemons[d].live = @ + 1], "promoted", d, "")
       IN IF w2.daemons[d].wired THEN onPromoted(w2, d) ELSE w2

\* approvePromotion without its state check.
approvePromotion_AnyState(w, d, task) ==
  spawnClaude([w EXCEPT !.daemons[d].currentTask = IF task # NullTask THEN task ELSE @], d)

\* Daemon.approvePromotion
approvePromotion(w, d, task) ==
  IF w.daemons[d].state # PROMOTING
  THEN Emit(w, "error", d, "not in promoting state")
  ELSE spawnClaude([w EXCEPT !.daemons[d].currentTask =
                                IF task # NullTask THEN task ELSE @], d)

\* Daemon.denyPromotion
denyPromotion(w, d, reason) ==
  IF w.daemons[d].state # PROMOTING
  THEN w
  ELSE Emit([w EXCEPT !.daemons[d].state = IDLE, !.daemons[d].currentTask = NullTask],
            "unclaim", d, reason)

\* ------------------------------------------------- promotion admission
\* _handlePromoteRequest without its promotionsPaused check.
handlePromoteRequest_IgnorePause(w, req) ==
  IF w.activeCount >= w.maxActive
  THEN EmitN([w EXCEPT !.promotionQueue = Append(@, req)],
             "promotion_queued", req.agentId, Len(w.promotionQueue) + 1)
  ELSE IF HasEntry(w, req.agentId)
  THEN approvePromotion(w, req.agentId, req.task)
  ELSE w

\* Supervisor._handlePromoteRequest
handlePromoteRequest(w, req) ==
  IF w.promotionsPaused
  THEN IF HasEntry(w, req.agentId)
       THEN denyPromotion(w, req.agentId, "promotions paused (budget/quota)")
       ELSE w
  ELSE IF w.activeCount >= w.maxActive
  THEN EmitN([w EXCEPT !.promotionQueue = Append(@, req)],
             "promotion_queued", req.agentId, Len(w.promotionQueue) + 1)
  ELSE IF w.tokenBudget > 0 /\ w.tokensUsed >= w.tokenBudget
  THEN LET w1 == Emit([w EXCEPT !.promotionsPaused = TRUE],
                       "promotions_paused", NoId, "token_budget") IN
       IF HasEntry(w1, req.agentId)
       THEN denyPromotion(w1, req.agentId, "token budget exhausted")
       ELSE w1
  ELSE IF HasEntry(w, req.agentId)
  THEN approvePromotion(w, req.agentId, req.task)
  ELSE w

\* _processPromotionQueue that takes the newest request first.
RECURSIVE processPromotionQueue_Newest(_)
processPromotionQueue_Newest(w) ==
  IF Len(w.promotionQueue) > 0 /\ w.activeCount < w.maxActive /\ ~w.promotionsPaused
  THEN LET n == Len(w.promotionQueue)
           req == w.promotionQueue[n]
           w1 == [w EXCEPT !.promotionQueue = SubSeq(@, 1, n - 1)]
       IN IF HasEntry(w1, req.agentId) /\ w1.daemons[req.agentId].state = PROMOTING
          THEN processPromotionQueue_Newest(approvePromotion(w1, req.agentId, req.task))
          ELSE processPromotionQueue_Newest(w1)
  ELSE w

\* Supervisor._processPromotionQueue
RECURSIVE processPromotionQueue(_)
processPromotionQueue(w) ==
  IF Len(w.promotionQueue) > 0 /\ w.activeCount < w.maxActive /\ ~w.promotionsPaused
  THEN LET req == Head(w.promotionQueue)
           w1 == [w EXCEPT !.promotionQueue = Tail(@)]
       IN IF HasEntry(w1, req.agentId) /\ w1.daemons[req.agentId].state = PROMOTING
          THEN processPromotionQueue(approvePromotion(w1, req.agentId, req.task))
          ELSE processPromotionQueue(w1)
  ELSE w

\* The demoted listener without the queue drain.
onDemoted_NoDrain(w, d) ==
  EmitN([w EXCEPT !.activeCount = Max(0, @ - 1)], "agent_demoted", d, Max(0, w.activeCount - 1))

\* The supervisor's demoted listener.
onDemoted(w, d) ==
  processPromotionQueue(EmitN([w EXCEPT !.activeCount = Max(0, @ - 1)],
                              "agent_demoted", d, Max(0, w.activeCount - 1)))

\* Daemon._requestPromotion, with the supervisor's promote-request listener.
requestPromotion(w, d, task) ==
  LET w1 == Emit([w EXCEPT !.daemons[d].state = PROMOTING,
                           !.daemons[d].currentTask = task], "promote-request", d, "")
  IN IF w1.daemons[d].wired
     THEN handlePromoteRequest(w1, [agentId |-> d, task |-> task])
     ELSE w1

\* handleMessage that takes any ASSIGN as its own.
handleMessage_AnyAssign(w, d, msg) ==
  IF w.daemons[d].state # IDLE THEN w
  ELSE IF msg.type = "ASSIGN"
  THEN requestPromotion(w, d, msg.task)
  ELSE IF msg.type = "TASK_AVAILABLE" /\ matchesRole(w.daemons[d].role, msg.task)
  THEN Emit(w, "claim", d, "")
  ELSE w

\* Daemon.handleMessage
handleMessage(w, d, msg) ==
  IF w.daemons[d].state # IDLE THEN w
  ELSE IF msg.type = "ASSIGN" /\ msg.agentId = d
  THEN requestPromotion(w, d, msg.task)
  ELSE IF msg.type = "TASK_AVAILABLE" /\ matchesRole(w.daemons[d].role, msg.task)
  THEN Emit(w, "claim", d, "")
  ELSE w

\* _handleClaudeExit that treats a non-zero exit code as a crash.
handleClaudeExit_CrashOnFail(w, d, code, tokens) ==
  IF code # 0 THEN handleClaudeError(w, d)
  ELSE
    LET w1 == [w EXCEPT !.daemons[d].state = DEMOTING]
        w2 == Emit(w1, "done", d, "exit")
        w3 == IF w2.daemons[d].wired THEN quotaOnResult(w2, d, tokens) ELSE w2
        w4 == startHeartbeat([w3 EXCEPT !.daemons[d].state = IDLE,
                                        !.daemons[d].currentTask = NullTask], d)
        w5 == Emit(w4, "demoted", d, "")
    IN IF w5.daemons[d].wired THEN onDemoted(w5, d) ELSE w5

\* _handleClaudeExit that emits demoted before it reports the result.
handleClaudeExit_DemotedFirst(w, d, code, tokens) ==
  LET w1 == startHeartbeat([w EXCEPT !.daemons[d].state = IDLE,
                                     !.daemons[d].currentTask = NullTask], d)
      w2 == Emit(w1, "demoted", d, "")
      w3 == IF w2.daemons[d].wired THEN onDemoted(w2, d) ELSE w2
      w4 == Emit(w3, IF code = 0 THEN "done" ELSE "fail", d, "exit")
  IN IF w4.daemons[d].wired THEN quotaOnResult(w4, d, tokens) ELSE w4

\* Daemon._handleClaudeExit, with the listeners of done/fail (quota) and
\* demoted (supervisor).  tokens is the estimate the probe derives from the
\* result's output.
handleClaudeExit(w, d, code, tokens) ==
  LET w1 == [w EXCEPT !.daemons[d].state = DEMOTING]
      w2 == Emit(w1, IF code = 0 THEN "done" ELSE "fail", d, "exit")
      w3 == IF w2.daemons[d].wired THEN quotaOnResult(w2, d, tokens) ELSE w2
      w4 == startHeartbeat([w3 EXCEPT !.daemons[d].state = IDLE,
                                      !.daemons[d].currentTask = NullTask], d)
      w5 == Emit(w4, "demoted", d, "")
  IN IF w5.daemons[d].wired THEN onDemoted(w5, d) ELSE w5

\* The child's exit listener installed by _spawnClaude.
onChildExit(w, d, code, tokens) ==
  handleClaudeExit([w EXCEPT !.daemons[d].claudeProcess = FALSE,
                             !.daemons[d].live = @ - 1], d, code, tokens)

\* The child's error listener installed by _spawnClaude.
onChildError(w, d) ==
  handleClaudeError([w EXCEPT !.daemons[d].claudeProcess = FALSE,
                              !.daemons[d].live = @ - 1], d)

\* --------------------------------------------------------------- spawner
NoWorkspace == 0 - 1

\* Spawner.teardown with confirm: true
teardown(w, agentId) ==
  IF w.workspaces[agentId] = NoWorkspace THEN w
  ELSE [w EXCEPT !.disk = @ \ {w.workspaces[agentId]},
                 !.workspaces[agentId] = NoWorkspace]

\* Supervisor._spawnDaemon: Spawner.spawn throws when the workspace directory
\* of that name exists; otherwise a fresh identity, a daemon wired to the
\* supervisor (and to the quota probe), a health record and a table entry.
spawnDaemon(w, name) ==
  IF name \in w.disk THEN Throw(w)
  ELSE IF w.nextId > MaxDaemons THEN [w EXCEPT !.nextId = MaxDaemons + 2]
  ELSE
    LET id == w.nextId
        w1 == [w EXCEPT !.disk = @ \cup {name},
                        !.workspaces[id] = name,
                        !.nextId = @ + 1,
                        !.daemons[id] = [NoDaemon EXCEPT !.name = name, !.state = IDLE,
                                                         !.wired = TRUE, !.role = "builder",
                                                         !.heartbeatIntervalMs =
                                                            w.heartbeatIntervalMs]]
        w2 == hmRegister(w1, id)
        w3 == [w2 EXCEPT !.processTable =
                 Append(@, [agentId |-> id, restartCount |-> 0, firstRestartAt |-> Null,
                            stableSince |-> w.now, restartScheduled |-> FALSE])]
    IN daemonStart(w3, id)

\* The spawn loops of start() and scale(): names from..to-1, until one throws.
RECURSIVE spawnRange(_, _, _)
spawnRange(w, from, to) ==
  IF from >= to \/ w.thrown THEN w
  ELSE spawnRange(spawnDaemon(w, from), from + 1, to)

\* ------------------------------------------------------------ supervisor
\* process.kill(pid, 0) succeeds for a living process and fails with ESRCH
\* otherwise.
ProcessAlive(pid) == pid \in SupIds /\ sups[pid].alive

\* Supervisor._acquirePidfile, as one process runs it with no other process
\* touching the file in between: an existing pidfile that names a living
\* process makes it throw, a stale one is logged and overwritten.
acquirePidfile(w) ==
  IF w.pidfile # NoPid /\ ProcessAlive(w.pidfile) THEN Throw(w)
  ELSE LET w1 == IF w.pidfile # NoPid THEN Emit(w, "stale_pidfile", NoId, "") ELSE w
       IN [w1 EXCEPT !.pidfile = SelfPid]

\* Supervisor._releasePidfile: unlink the file if it holds this process's pid.
releasePidfile(w) ==
  IF w.pidfile = SelfPid THEN [w EXCEPT !.pidfile = NoPid] ELSE w

\* Supervisor.start (the bus connects).  The awaits on the in-process bus
\* resolve without yielding to a timer or an I/O callback, so no other handler
\* runs inside start() or stop().
start(w) ==
  LET w0 == acquirePidfile(w)
      w1 == [w0 EXCEPT !.running = TRUE, !.alertListeners = @ + 1]
      w2 == spawnRange(w1, 0, Count)
  IN IF w0.thrown THEN w0
     ELSE IF w2.thrown THEN w2
     ELSE Emit([w2 EXCEPT !.hmRunning = TRUE], "swarm_started", NoId, "")

RECURSIVE stopDaemons(_, _)
stopDaemons(w, i) ==
  IF i > Len(w.processTable) THEN w
  ELSE LET id == w.processTable[i].agentId
       IN stopDaemons(hmUnregister(daemonStop(w, id), id), i + 1)

RECURSIVE teardownAll(_, _)
teardownAll(w, i) ==
  IF i > Len(w.processTable) THEN w
  ELSE teardownAll(teardown(w, w.processTable[i].agentId), i + 1)

\* stop() that leaves the pidfile behind.
stop_KeepPidfile(w) ==
  IF ~w.running THEN w
  ELSE
    LET w1 == [w EXCEPT !.running = FALSE, !.hmRunning = FALSE,
                        !.timers = {[t EXCEPT !.afterStop = TRUE] : t \in @}]
        w2 == stopDaemons(w1, 1)
        w3 == IF ~w2.persist THEN teardownAll(w2, 1) ELSE w2
        w4 == [w3 EXCEPT !.processTable = <<>>, !.promotionQueue = <<>>,
                         !.activeCount = 0]
    IN Emit(w4, "swarm_stopped", NoId, "")

\* Supervisor.stop.  It clears no timer; afterStop only records, for each
\* restart timer still pending, that a stop() has run since it was set.
stop(w) ==
  IF ~w.running THEN w
  ELSE
    LET w1 == [w EXCEPT !.running = FALSE, !.hmRunning = FALSE,
                        !.timers = {[t EXCEPT !.afterStop = TRUE] : t \in @}]
        w2 == stopDaemons(w1, 1)
        w3 == IF ~w2.persist THEN teardownAll(w2, 1) ELSE w2
        w4 == [w3 EXCEPT !.processTable = <<>>, !.promotionQueue = <<>>,
                         !.activeCount = 0]
    IN Emit(releasePidfile(w4), "swarm_stopped", NoId, "")

\* The idle entries' table positions, sorted by stableSince ascending
\* (Array.prototype.sort is stable: ties keep table order).
RECURSIVE sortByStableSince(_, _)
sortByStableSince(w, S) ==
  IF S = {} THEN <<>>
  ELSE LET m == CHOOSE i \in S : \A j \in S :
                  \/ w.processTable[i].stableSince < w.processTable[j].stableSince
                  \/ /\ w.processTable[i].stableSince = w.processTable[j].stableSince
                     /\ i <= j
       IN <<w.processTable[m].agentId>> \o sortByStableSince(w, S \ {m})

\* Scale-down candidates chosen without looking at the daemon's state.
scaleCandidates_AnyState(w) ==
  sortByStableSince(w, 1..Len(w.processTable))

scaleCandidates(w) ==
  sortByStableSince(w, {i \in 1..Len(w.processTable) :
                          w.daemons[w.processTable[i].agentId].state = IDLE})

RECURSIVE removeCandidates(_, _, _)
removeCandidates(w, cands, k) ==
  IF k = 0 \/ cands = <<>> THEN w
  ELSE LET id == Head(cands)
           w1 == hmUnregister(daemonStop(w, id), id)
           w2 == IF ~w1.persist THEN teardown(w1, id) ELSE w1
       IN removeCandidates(TableDelete(w2, id), Tail(cands), k - 1)

\* Supervisor.scale
scale(w, target) ==
  LET current == Len(w.processTable) IN
  IF ~w.running THEN Throw(w)
  ELSE IF target = 0 THEN stop(w)
  ELSE IF target > current
  THEN LET w1 == spawnRange(w, current, target)
       IN IF w1.thrown THEN w1 ELSE EmitN(w1, "scaled_up", NoId, target - current)
  ELSE IF target < current
  THEN LET w1 == removeCandidates(w, scaleCandidates(w), current - target)
       IN EmitN(w1, "scaled_down", NoId, current - Len(w1.processTable))
  ELSE w

\* Supervisor.reloadConfig; Undefined is a field the caller left out.
Undefined == 0 - 1

\* reloadConfig without the closing queue drain.
reloadConfig_NoDrain(w, cfg) ==
  LET w1 == IF cfg.maxActive # Undefined
            THEN EmitN([w EXCEPT !.maxActive = cfg.maxActive],
                       "config_reloaded maxActive", NoId, cfg.maxActive)
            ELSE w
      w2 == IF cfg.tokenBudget # Undefined
            THEN EmitN([w1 EXCEPT !.tokenBudget = cfg.tokenBudget,
                                  !.promotionsPaused =
                                     IF @ /\ w1.tokensUsed < cfg.tokenBudget THEN FALSE ELSE @],
                       "config_reloaded tokenBudget", NoId, cfg.tokenBudget)
            ELSE w1
  IN IF cfg.heartbeatIntervalMs # Undefined
     THEN EmitN([w2 EXCEPT !.heartbeatIntervalMs = cfg.heartbeatIntervalMs],
                "config_reloaded heartbeatIntervalMs", NoId, cfg.heartbeatIntervalMs)
     ELSE w2

reloadConfig(w, cfg) ==
  LET w1 == IF cfg.maxActive # Undefined
            THEN EmitN([w EXCEPT !.maxActive = cfg.maxActive],
                       "config_reloaded maxActive", NoId, cfg.maxActive)
            ELSE w
      w2 == IF cfg.tokenBudget # Undefined
            THEN EmitN([w1 EXCEPT !.tokenBudget = cfg.tokenBudget,
                                  !.promotionsPaused =
                                     IF @ /\ w1.tokensUsed < cfg.tokenBudget THEN FALSE ELSE @],
                       "config_reloaded tokenBudget", NoId, cfg.tokenBudget)
            ELSE w1
      w3 == IF cfg.heartbeatIntervalMs # Undefined
            THEN EmitN([w2 EXCEPT !.heartbeatIntervalMs = cfg.heartbeatIntervalMs],
                       "config_reloaded heartbeatIntervalMs", NoId, cfg.heartbeatIntervalMs)
            ELSE w2
  IN processPromotionQueue(w3)

\* The delivery loop of _routeMessage and broadcastTask: the message goes to
\* every daemon of the table, in table order.
RECURSIVE deliverAll(_, _, _)
deliverAll(w, msg, i) ==
  IF i > Len(w.processTable) THEN w
  ELSE deliverAll(handleMessage(w, w.processTable[i].agentId, msg), msg, i + 1)

\* What a bus message can carry as content: nothing, text that is not JSON,
\* the JSON text null, or the JSON text of an object with a type field.
NoContent == [kind |-> "empty", type |-> "-", agentId |-> NoId, task |-> NullTask]
TextContent == [kind |-> "text", type |-> "-", agentId |-> NoId, task |-> NullTask]
NullContent == [kind |-> "null", type |-> "-", agentId |-> NoId, task |-> NullTask]

\* JSON.stringify of a structured message.
Stringify(m) == [kind |-> "object", type |-> m.type, agentId |-> m.agentId, task |-> m.task]

MessageTypes == {"ASSIGN", "TASK_AVAILABLE", "PING"}

NoTaskMsg == [type |-> "-", agentId |-> NoId, task |-> NullTask]

\* JSON.parse: throws on text that is not JSON, yields null for the text null
\* and the object for the text of an object.
JSONParse(content) ==
  IF content.kind = "text" THEN [threw |-> TRUE, isNull |-> FALSE, value |-> NoTaskMsg]
  ELSE IF content.kind = "null" THEN [threw |-> FALSE, isNull |-> TRUE, value |-> NoTaskMsg]
  ELSE [threw |-> FALSE, isNull |-> FALSE,
        value |-> [type |-> content.type, agentId |-> content.agentId, task |-> content.task]]

\* The try block of _routeMessage: reading .type of null throws inside the
\* try as well, and the catch ignores it.
parseTaskMsg(content) ==
  IF content.kind = "empty" THEN NoTaskMsg
  ELSE LET parsed == JSONParse(content) IN
       IF parsed.threw \/ parsed.isNull THEN NoTaskMsg
       ELSE IF parsed.value.type \in {"ASSIGN", "TASK_AVAILABLE"} THEN parsed.value
       ELSE NoTaskMsg

\* Supervisor._routeMessage
routeMessage(w, msg) ==
  LET taskMsg == parseTaskMsg(msg.content) IN
  IF taskMsg = NoTaskMsg THEN w
  ELSE deliverAll(Emit(w, "message_routed", NoId, taskMsg.type), taskMsg, 1)

\* Supervisor.assignTask
assignTask(w, agentId, task) ==
  IF HasEntry(w, agentId)
  THEN handleMessage(w, agentId, [type |-> "ASSIGN", agentId |-> agentId, task |-> task])
  ELSE w

\* Supervisor.broadcastTask
broadcastTask(w, task) ==
  deliverAll(w, [type |-> "TASK_AVAILABLE", agentId |-> NoId, task |-> task], 1)

\* The restart timer of _handleCrash firing.
restartFire(w, t) ==
  LET w0 == [w EXCEPT !.timers = @ \ {t}] IN
  IF ~w0.running THEN w0
  ELSE
    LET old == t.agentId
        w1 == hmUnregister(daemonStop(w0, old), old)
        w2 == IF w1.daemons[old].state = ACTIVE
              THEN [w1 EXCEPT !.activeCount = Max(0, @ - 1)] ELSE w1
        w3 == TableDelete(w2, old)
        w4 == spawnDaemon(w3, w3.daemons[old].name)
    IN IF w4.thrown \/ w4.nextId > MaxDaemons + 1 THEN w4
       ELSE LET newId == w4.nextId - 1
                i == EntryIndex(w4, newId)
            IN Emit([w4 EXCEPT !.processTable[i].restartCount = t.restartCount,
                               !.processTable[i].firstRestartAt = t.firstRestartAt,
                               !.processTable[i].stableSince = w4.now],
                    "agent_restarted", newId, "")

\* One tick of the clock.  Every daemon whose heartbeat interval runs emits
\* heartbeats during the tick (the interval is shorter than the tick); the
\* supervisor's listener passes them to the health monitor.
RECURSIVE heartbeats(_, _)
heartbeats(w, d) ==
  IF d > MaxDaemons THEN w
  ELSE IF w.daemons[d].hbTimer
       THEN LET w1 == Emit(w, "heartbeat", d, w.daemons[d].state)
            IN heartbeats(IF w1.daemons[d].wired THEN hmHeartbeat(w1, d) ELSE w1, d + 1)
       ELSE heartbeats(w, d + 1)

tick(w) == heartbeats([w EXCEPT !.now = @ + TickMs], 1)

\* The bus 'message' listener of start(): like the 'alert' listener, one more
\* is registered by every start(), and each routes the message.
RECURSIVE onBusMessage(_, _, _)
onBusMessage(w, msg, k) ==
  IF k = 0 THEN w ELSE onBusMessage(routeMessage(w, msg), msg, k - 1)

\* ================================================================ system
NoProbe == [attached |-> FALSE, budget |-> 0, totalTokens |-> 0, warningEmitted |-> FALSE,
            estimationMethod |-> "output"]

\* The configurations explored: no budget and no probe, or a budget with a
\* quota probe of the same budget attached before start().
Budgeting ==
  {[tokenBudget |-> 0, probe |-> NoProbe],
   [tokenBudget |-> 1, probe |-> [NoProbe EXCEPT !.attached = TRUE, !.budget = 1]]}

Init ==
  /\ running = FALSE
  /\ maxActive \in MaxActiveValues
  /\ \E b \in Budgeting : tokenBudget = b.tokenBudget /\ probe = b.probe
  /\ tokensUsed = 0
  /\ activeCount = 0
  /\ promotionsPaused = FALSE
  /\ promotionQueue = <<>>
  /\ processTable = <<>>
  /\ persist \in BOOLEAN
  /\ alertListeners = 0
  /\ daemons = [d \in DaemonIds |-> NoDaemon]
  /\ nextId = 1
  /\ timers = {}
  /\ health = [d \in DaemonIds |-> NoHealth]
  /\ hmRunning = FALSE
  /\ disk = {}
  /\ workspaces = [d \in DaemonIds |-> NoWorkspace]
  /\ now = TickMs
  /\ halted = FALSE
  /\ log = <<>>
  /\ approvals = <<>>
  /\ pidfile \in {NoPid, OtherPid, DeadPid}
  /\ sups = [s \in SupIds |-> [NoSup EXCEPT !.alive = (s = SelfPid \/ s = pidfile),
                                            !.running = (s = pidfile)]]
  /\ bus = NoBus
  /\ heartbeatIntervalMs = HeartbeatIntervalMs
  /\ hmIntervalMs = HeartbeatIntervalMs

\* A handler runs to completion and its effects become the next state.
Do(w) == InBounds(w) /\ Commit(w)

Start ==
  /\ ~halted /\ ~running
  /\ Do(start(World))

Stop ==
  /\ ~halted /\ running
  /\ Do(stop(World))

Scale ==
  /\ ~halted /\ running
  /\ \E target \in 0..MaxDaemons : Do(scale(World, target))

ReloadConfig ==
  /\ ~halted
  /\ \E m \in MaxActiveValues \cup {Undefined}, b \in BudgetValues \cup {Undefined} :
       /\ m = Undefined \/ b = Undefined
       /\ m # Undefined \/ b # Undefined
       /\ Do(reloadConfig(World, [maxActive |-> m, tokenBudget |-> b,
                                  heartbeatIntervalMs |-> Undefined]))

AssignTask ==
  /\ ~halted
  /\ \E d \in DaemonIds, task \in Tasks :
       /\ HasEntry(World, d)
       /\ Do(assignTask(World, d, task))

BroadcastTask ==
  /\ ~halted /\ processTable # <<>>
  /\ \E task \in Tasks : Do(broadcastTask(World, task))

\* What arrives on the connected bus: structured messages of every type for
\* every daemon id, and content that is not a structured message.
BusContents ==
  {NoContent, TextContent, NullContent} \cup
  {Stringify([type |-> t, agentId |-> d, task |-> task]) :
     t \in MessageTypes, d \in DaemonIds, task \in Tasks}

\* A message arrives on the connected bus.
RouteMessage ==
  /\ ~halted /\ running
  /\ \E c \in BusContents : Do(onBusMessage(World, [content |-> c], alertListeners))

\* A child process ends; its exit listener runs.
ExecutorExit ==
  /\ ~halted
  /\ \E d \in DaemonIds, code \in {0, 1}, tokens \in TokenAmounts :
       /\ daemons[d].live > 0
       /\ Do(onChildExit(World, d, code, tokens))

\* A child process fails to start; its error listener runs.
ExecutorError ==
  /\ ~halted
  /\ \E d \in DaemonIds :
       /\ daemons[d].live > 0
       /\ Do(onChildError(World, d))

\* The health monitor's interval fires.
HealthCheck ==
  /\ ~halted /\ hmRunning
  /\ Do(hmCheck(World))

\* A restart timer fires; nothing catches what its callback throws.
RestartFire ==
  /\ ~halted
  /\ \E t \in timers :
       /\ t.fireAt <= now
       /\ LET w == restartFire(World, t) IN Do([w EXCEPT !.halted = w.thrown])

\* Time passes; a due timer fires before the clock moves on.
Tick ==
  /\ ~halted
  /\ now < (MaxTicks + 1) * TickMs
  /\ \A t \in timers : t.fireAt > now
  /\ Do(tick(World))

Next ==
  \/ Start
  \/ Stop
  \/ Scale
  \/ ReloadConfig
  \/ AssignTask
  \/ BroadcastTask
  \/ RouteMessage
  \/ ExecutorExit
  \/ ExecutorError
  \/ HealthCheck
  \/ RestartFire
  \/ Tick

Spec == Init /\ [][Next]_vars

\* ========================================================= daemon alone
\* A daemon driven through its public API by a caller other than the
\* supervisor: constructed, not wired, with an 'error' listener installed.
DaemonRoles == {"builder", "general"}
DaemonTasks == {OkTask, NulTask, [role |-> "-", prompt |-> "ok"]}

DaemonInit ==
  /\ running = FALSE
  /\ maxActive = 1
  /\ tokenBudget = 0
  /\ probe = NoProbe
  /\ tokensUsed = 0
  /\ activeCount = 0
  /\ promotionsPaused = FALSE
  /\ promotionQueue = <<>>
  /\ processTable = <<>>
  /\ persist = FALSE
  /\ alertListeners = 0
  /\ \E r \in DaemonRoles :
       daemons = [d \in DaemonIds |->
                    IF d = 1 THEN [NoDaemon EXCEPT !.name = 0, !.state = IDLE, !.role = r]
                    ELSE NoDaemon]
  /\ nextId = MaxDaemons + 1
  /\ timers = {}
  /\ health = [d \in DaemonIds |-> NoHealth]
  /\ hmRunning = FALSE
  /\ disk = {}
  /\ workspaces = [d \in DaemonIds |-> NoWorkspace]
  /\ now = TickMs
  /\ halted = FALSE
  /\ log = <<>>
  /\ approvals = <<>>
  /\ pidfile = NoPid
  /\ sups = [s \in SupIds |-> [NoSup EXCEPT !.alive = (s = SelfPid)]]
  /\ bus = NoBus
  /\ heartbeatIntervalMs = HeartbeatIntervalMs
  /\ hmIntervalMs = HeartbeatIntervalMs

Constructed == {d \in DaemonIds : daemons[d].state # NONE}

DaemonStart == \E d \in Constructed : Do(daemonStart(World, d))

DaemonStop == \E d \in Constructed : Do(daemonStop(World, d))

DaemonMessage ==
  \E d \in Constructed, to \in DaemonIds, type \in {"ASSIGN", "TASK_AVAILABLE"},
     task \in DaemonTasks :
    Do(handleMessage(World, d, [type |-> type, agentId |-> to, task |-> task]))

DaemonApprove ==
  \E d \in Constructed, task \in DaemonTasks \cup {NullTask} :
    Do(approvePromotion(World, d, task))

DaemonDeny == \E d \in Constructed : Do(denyPromotion(World, d, "denied"))

DaemonNext ==
  \/ DaemonStart
  \/ DaemonStop
  \/ DaemonMessage
  \/ DaemonApprove
  \/ DaemonDeny
  \/ ExecutorExit
  \/ ExecutorError

DaemonSpec == DaemonInit /\ [][DaemonNext]_vars

\* ======================================================= crash handling
\* One slot of a running supervisor at a crash: the entry's counters and the
\* clock are drawn around the thresholds of _handleCrash.
MaxRestartCount == 9

RECURSIVE MinBurstMs(_)
MinBurstMs(k) ==
  IF k = 0 THEN 0 ELSE Min(Pow2(k), MaxBackoffSec) * 1000 + MinBurstMs(k - 1)

CrashNow == 2 * DegradedWindowMs
SinceStable == {0, StableResetMs, StableResetMs + 1}
SinceFirst(rc, ds) ==
  {g \in {ds + MinBurstMs(rc), DegradedWindowMs - 1, DegradedWindowMs} :
     g >= ds + MinBurstMs(rc)}

CrashInit ==
  /\ running = TRUE
  /\ maxActive = 1
  /\ tokenBudget = 0
  /\ probe = NoProbe
  /\ tokensUsed = 0
  /\ activeCount = 1
  /\ promotionsPaused = FALSE
  /\ promotionQueue = <<>>
  /\ \E rc \in 0..MaxRestartCount, ds \in SinceStable, sched \in BOOLEAN :
       \E g \in SinceFirst(rc, ds) :
         processTable = <<[agentId |-> 1, restartCount |-> rc,
                           firstRestartAt |-> IF rc = 0 THEN Null ELSE CrashNow - g,
                           stableSince |-> CrashNow - ds, restartScheduled |-> sched]>>
  /\ persist = FALSE
  /\ alertListeners = 1
  /\ daemons = [d \in DaemonIds |->
                 IF d = 1 THEN [NoDaemon EXCEPT !.name = 0, !.state = ACTIVE, !.wired = TRUE,
                                                !.role = "builder", !.currentTask = OkTask,
                                                !.claudeProcess = TRUE, !.live = 1]
                 ELSE NoDaemon]
  /\ nextId = 2
  /\ timers = {}
  /\ health = [d \in DaemonIds |->
                IF d = 1 THEN [reg |-> TRUE, lastSeen |-> CrashNow - TickMs,
                               status |-> "alive", consecutiveMisses |-> 0]
                ELSE NoHealth]
  /\ hmRunning = TRUE
  /\ disk = {0}
  /\ workspaces = [d \in DaemonIds |-> IF d = 1 THEN 0 ELSE NoWorkspace]
  /\ now = CrashNow
  /\ halted = FALSE
  /\ log = <<>>
  /\ approvals = <<>>
  /\ pidfile = SelfPid
  /\ sups = [s \in SupIds |-> [NoSup EXCEPT !.alive = (s = SelfPid)]]
  /\ bus = NoBus
  /\ heartbeatIntervalMs = HeartbeatIntervalMs
  /\ hmIntervalMs = HeartbeatIntervalMs

CrashNext ==
  \/ ExecutorError
  \/ HealthCheck

CrashSpec == CrashInit /\ [][CrashNext]_vars

\* ====================================================== a long-running task
\* One slot of a running supervisor configured with maxTaskDurationMs = 2000,
\* which is longer than MissThreshold heartbeat intervals, as the defaults are:
\* its daemon has just been promoted and its executor runs while the clock
\* moves on.  No task is assigned afterwards, so an executor of daemon 1 is
\* the one started at WatchStart.
MaxWatchTicks == 3
MaxTaskDurationMs == 2000
WatchStart == TickMs

WatchInit ==
  /\ running = TRUE
  /\ maxActive \in MaxActiveValues
  /\ tokenBudget = 0
  /\ probe = NoProbe
  /\ tokensUsed = 0
  /\ activeCount = 1
  /\ promotionsPaused = FALSE
  /\ promotionQueue = <<>>
  /\ processTable = <<[agentId |-> 1, restartCount |-> 0, firstRestartAt |-> Null,
                       stableSince |-> WatchStart, restartScheduled |-> FALSE]>>
  /\ persist \in BOOLEAN
  /\ alertListeners = 1
  /\ daemons = [d \in DaemonIds |->
                 IF d = 1 THEN [NoDaemon EXCEPT !.name = 0, !.state = ACTIVE, !.wired = TRUE,
                                                !.role = "builder", !.currentTask = OkTask,
                                                !.claudeProcess = TRUE, !.live = 1]
                 ELSE NoDaemon]
  /\ nextId = 2
  /\ timers = {}
  /\ health = [d \in DaemonIds |->
                IF d = 1 THEN [reg |-> TRUE, lastSeen |-> WatchStart,
                               status |-> "alive", consecutiveMisses |-> 0]
                ELSE NoHealth]
  /\ hmRunning = TRUE
  /\ disk = {0}
  /\ workspaces = [d \in DaemonIds |-> IF d = 1 THEN 0 ELSE NoWorkspace]
  /\ now = WatchStart
  /\ halted = FALSE
  /\ log = <<>>
  /\ approvals = <<>>
  /\ pidfile = SelfPid
  /\ sups = [s \in SupIds |-> [NoSup EXCEPT !.alive = (s = SelfPid)]]
  /\ bus = NoBus
  /\ heartbeatIntervalMs = HeartbeatIntervalMs
  /\ hmIntervalMs = HeartbeatIntervalMs

\* Time passes; a due timer fires before the clock moves on.
WatchTick ==
  /\ ~halted
  /\ now < WatchStart + MaxWatchTicks * TickMs
  /\ \A t \in timers : t.fireAt > now
  /\ Do(tick(World))

WatchNext ==
  \/ WatchTick
  \/ HealthCheck
  \/ RestartFire
  \/ ExecutorExit
  \/ ExecutorError

WatchSpec == WatchInit /\ [][WatchNext]_vars

\* ==================================================== quota probe alone
\* A QuotaProbe attached to a supervisor that is not running, driven through
\* record(), setBudget() and reset().  A result carries an explicit token
\* count (or none), the length of its output and its duration.
MaxQuotaTokens == 6
CharsPerToken == 4
TokensPerSecond == 50
EstimationMethods == {"output", "duration", "reported"}
QuotaBudgets == BudgetValues \cup {5}
Results ==
  [agentId : {NoId, 1}, tokens : {Undefined, 0 - 2, 0, 1},
   outputLen : {0, 1, 5}, durationMs : {0, 10}]

\* Math.ceil(a / b) for a >= 0, b > 0
Ceil(a, b) == (a + b - 1) \div b

\* record() that takes any explicit token count, negative ones too.
estimateTokens_AnyExplicit(p, result) ==
  IF result.tokens # Undefined THEN result.tokens
  ELSE IF p.estimationMethod = "output" /\ result.outputLen > 0
  THEN Ceil(result.outputLen, CharsPerToken)
  ELSE IF p.estimationMethod = "duration" /\ result.durationMs # 0
  THEN Ceil(result.durationMs * TokensPerSecond, 1000)
  ELSE IF result.outputLen > 0
  THEN Ceil(result.outputLen, CharsPerToken)
  ELSE 0

\* QuotaProbe.record: the token count of a result.
estimateTokens(p, result) ==
  IF result.tokens # Undefined /\ result.tokens > 0 THEN result.tokens
  ELSE IF p.estimationMethod = "output" /\ result.outputLen > 0
  THEN Ceil(result.outputLen, CharsPerToken)
  ELSE IF p.estimationMethod = "duration" /\ result.durationMs # 0
  THEN Ceil(result.durationMs * TokensPerSecond, 1000)
  ELSE IF result.outputLen > 0
  THEN Ceil(result.outputLen, CharsPerToken)
  ELSE 0

\* QuotaProbe.record
record(w, result) ==
  IF result.agentId = NoId THEN w
  ELSE probeRecord(w, result.agentId, estimateTokens(w.probe, result))

\* QuotaProbe.setBudget
setBudget(w, newBudget) ==
  LET w1 == [w EXCEPT !.probe.budget = newBudget]
  IN IF newBudget > 0 /\ 100 * w1.probe.totalTokens < WarningPct * newBudget
     THEN [w1 EXCEPT !.probe.warningEmitted = FALSE]
     ELSE w1

\* QuotaProbe.reset
reset(w) == [w EXCEPT !.probe.totalTokens = 0, !.probe.warningEmitted = FALSE]

QuotaInit ==
  /\ running = FALSE
  /\ maxActive = 1
  /\ tokenBudget = 0
  /\ \E m \in EstimationMethods, b \in QuotaBudgets :
       probe = [NoProbe EXCEPT !.attached = TRUE, !.budget = b, !.estimationMethod = m]
  /\ tokensUsed = 0
  /\ activeCount = 0
  /\ promotionsPaused = FALSE
  /\ promotionQueue = <<>>
  /\ processTable = <<>>
  /\ persist = FALSE
  /\ alertListeners = 0
  /\ daemons = [d \in DaemonIds |-> NoDaemon]
  /\ nextId = 1
  /\ timers = {}
  /\ health = [d \in DaemonIds |-> NoHealth]
  /\ hmRunning = FALSE
  /\ disk = {}
  /\ workspaces = [d \in DaemonIds |-> NoWorkspace]
  /\ now = TickMs
  /\ halted = FALSE
  /\ log = <<>>
  /\ approvals = <<>>
  /\ pidfile = NoPid
  /\ sups = [s \in SupIds |-> [NoSup EXCEPT !.alive = (s = SelfPid)]]
  /\ bus = NoBus
  /\ heartbeatIntervalMs = HeartbeatIntervalMs
  /\ hmIntervalMs = HeartbeatIntervalMs

QuotaDo(w) == w.probe.totalTokens <= MaxQuotaTokens /\ Commit(w)

QuotaRecord == \E result \in Results : QuotaDo(record(Emit(World, "record", NoId, ""), result))

QuotaSetBudget ==
  \E b \in QuotaBudgets : QuotaDo(setBudget(Emit(World, "setBudget", NoId, ""), b))

QuotaReset == QuotaDo(reset(Emit(World, "reset", NoId, "")))

QuotaNext ==
  \/ QuotaRecord
  \/ QuotaSetBudget
  \/ QuotaReset

QuotaSpec == QuotaInit /\ [][QuotaNext]_vars

\* A HealthMonitor driven through its public API, with no 'alert' listener:
\* agents are registered (again, too) and unregistered, heartbeats arrive,
\* check() is called, and the clock moves by one heartbeat interval.
MaxHealthTicks == 4

HealthInit ==
  /\ running = FALSE
  /\ maxActive = 1
  /\ tokenBudget = 0
  /\ probe = NoProbe
  /\ tokensUsed = 0
  /\ activeCount = 0
  /\ promotionsPaused = FALSE
  /\ promotionQueue = <<>>
  /\ processTable = <<>>
  /\ persist = FALSE
  /\ alertListeners = 0
  /\ daemons = [d \in DaemonIds |-> NoDaemon]
  /\ nextId = 1
  /\ timers = {}
  /\ health = [d \in DaemonIds |-> NoHealth]
  /\ hmRunning = FALSE
  /\ disk = {}
  /\ workspaces = [d \in DaemonIds |-> NoWorkspace]
  /\ now = TickMs
  /\ halted = FALSE
  /\ log = <<>>
  /\ approvals = <<>>
  /\ pidfile = NoPid
  /\ sups = [s \in SupIds |-> [NoSup EXCEPT !.alive = (s = SelfPid)]]
  /\ bus = NoBus
  /\ heartbeatIntervalMs = HeartbeatIntervalMs
  /\ hmIntervalMs = HeartbeatIntervalMs

Later(w, ms) == [w EXCEPT !.now = @ + ms]

HmRegister == \E a \in DaemonIds : Do(hmRegister(World, a))

HmUnregister == \E a \in DaemonIds : health[a].reg /\ Do(hmUnregister(World, a))

\* heartbeat(agentId); the event recorded names the status it found.
HmHeartbeat ==
  \E a \in DaemonIds : Do(hmHeartbeat(Emit(World, "heartbeat", a, health[a].status), a))

HmCheck == Do(hmCheck(Emit(World, "check", NoId, "")))

HmAdvance ==
  /\ now < TickMs + MaxHealthTicks * HeartbeatIntervalMs
  /\ Do(Later(World, HeartbeatIntervalMs))

HealthNext ==
  \/ HmRegister
  \/ HmUnregister
  \/ HmHeartbeat
  \/ HmCheck
  \/ HmAdvance

HealthSpec == HealthInit /\ [][HealthNext]_vars

\* Two supervisor processes configured with the same pidfile path.  Each call
\* of fs.existsSync, fs.readFileSync, process.kill, fs.writeFileSync and
\* fs.unlinkSync is one step of its process; the other process may run between
\* any two of them.  The swarm each supervisor manages is left out.
swarmVars == <<running, maxActive, tokenBudget, tokensUsed, activeCount, promotionsPaused,
               promotionQueue, processTable, persist, alertListeners,
               daemons, nextId, timers, health, hmRunning, probe, disk, workspaces,
               now, halted, log, approvals, bus, heartbeatIntervalMs, hmIntervalMs>>

PidInit ==
  /\ running = FALSE
  /\ maxActive = 1
  /\ tokenBudget = 0
  /\ probe = NoProbe
  /\ tokensUsed = 0
  /\ activeCount = 0
  /\ promotionsPaused = FALSE
  /\ promotionQueue = <<>>
  /\ processTable = <<>>
  /\ persist = FALSE
  /\ alertListeners = 0
  /\ daemons = [d \in DaemonIds |-> NoDaemon]
  /\ nextId = 1
  /\ timers = {}
  /\ health = [d \in DaemonIds |-> NoHealth]
  /\ hmRunning = FALSE
  /\ disk = {}
  /\ workspaces = [d \in DaemonIds |-> NoWorkspace]
  /\ now = TickMs
  /\ halted = FALSE
  /\ log = <<>>
  /\ approvals = <<>>
  /\ pidfile \in {NoPid, DeadPid}
  /\ sups = [s \in SupIds |-> [NoSup EXCEPT !.alive = TRUE]]
  /\ bus = NoBus
  /\ heartbeatIntervalMs = HeartbeatIntervalMs
  /\ hmIntervalMs = HeartbeatIntervalMs

SupStep(s, pc) == sups[s].alive /\ sups[s].pc = pc /\ UNCHANGED swarmVars

\* start() is called: the running flag is false, _acquirePidfile begins.
PidStart ==
  \E s \in SupIds :
    /\ SupStep(s, "idle") /\ ~sups[s].running
    /\ sups' = [sups EXCEPT ![s].pc = "exists", ![s].result = "-"]
    /\ UNCHANGED pidfile

\* fs.existsSync(this.pidfile)
PidExists ==
  \E s \in SupIds :
    /\ SupStep(s, "exists")
    /\ sups' = [sups EXCEPT ![s].pc = IF pidfile # NoPid THEN "read" ELSE "write"]
    /\ UNCHANGED pidfile

\* fs.readFileSync(this.pidfile): throws ENOENT, outside the try block, when
\* the file has been removed since existsSync.
PidRead ==
  \E s \in SupIds :
    /\ SupStep(s, "read")
    /\ sups' = IF pidfile = NoPid
               THEN [sups EXCEPT ![s].pc = "idle", ![s].result = "enoent"]
               ELSE [sups EXCEPT ![s].pc = "kill", ![s].existingPid = pidfile]
    /\ UNCHANGED pidfile

\* process.kill(existingPid, 0): success throws 'already running', ESRCH
\* means a stale pidfile and falls through to the write.
PidKill ==
  \E s \in SupIds :
    /\ SupStep(s, "kill")
    /\ sups' = IF ProcessAlive(sups[s].existingPid)
               THEN [sups EXCEPT ![s].pc = "idle", ![s].existingPid = NoPid,
                                 ![s].result = "already-running"]
               ELSE [sups EXCEPT ![s].pc = "write", ![s].existingPid = NoPid]
    /\ UNCHANGED pidfile

\* fs.writeFileSync(this.pidfile, process.pid), and start() goes on in the
\* same turn to set running.
PidWrite ==
  \E s \in SupIds :
    /\ SupStep(s, "write")
    /\ pidfile' = s
    /\ sups' = [sups EXCEPT ![s].pc = "idle", ![s].running = TRUE, ![s].result = "started"]

\* stop() on a running supervisor, up to _releasePidfile.
PidStop ==
  \E s \in SupIds :
    /\ SupStep(s, "idle") /\ sups[s].running
    /\ sups' = [sups EXCEPT ![s].pc = "release", ![s].running = FALSE]
    /\ UNCHANGED pidfile

\* _releasePidfile: existsSync and readFileSync, compared with the own pid.
PidReleaseRead ==
  \E s \in SupIds :
    /\ SupStep(s, "release")
    /\ sups' = [sups EXCEPT ![s].pc = IF pidfile = s THEN "unlink" ELSE "idle"]
    /\ UNCHANGED pidfile

\* _releasePidfile: fs.unlinkSync; a missing file throws into the empty catch.
PidUnlink ==
  \E s \in SupIds :
    /\ SupStep(s, "unlink")
    /\ pidfile' = NoPid
    /\ sups' = [sups EXCEPT ![s].pc = "idle"]

\* The process is killed: nothing of stop() runs, the pidfile stays.
PidDie ==
  \E s \in SupIds :
    /\ sups[s].alive /\ UNCHANGED swarmVars
    /\ sups' = [sups EXCEPT ![s] = [NoSup EXCEPT !.pc = "dead", !.result = sups[s].result]]
    /\ UNCHANGED pidfile

PidNext ==
  \/ PidStart
  \/ PidExists
  \/ PidRead
  \/ PidKill
  \/ PidWrite
  \/ PidStop
  \/ PidReleaseRead
  \/ PidUnlink
  \/ PidDie

PidSpec == PidInit /\ [][PidNext]_vars

\* ====================================================== message bus alone
\* EventEmitterBus endpoints on one hub, driven through connect(), join(),
\* send() and disconnect().  A target is a channel (#1, #2) or an agent
\* (@1, @2).
MaxListeners == 2
BusChannels == {1, 2}
Targets == [kind : {"#", "@"}, id : {1, 2}]

BusInit ==
  /\ running = FALSE
  /\ maxActive = 1
  /\ tokenBudget = 0
  /\ probe = NoProbe
  /\ tokensUsed = 0
  /\ activeCount = 0
  /\ promotionsPaused = FALSE
  /\ promotionQueue = <<>>
  /\ processTable = <<>>
  /\ persist = FALSE
  /\ alertListeners = 0
  /\ daemons = [d \in DaemonIds |-> NoDaemon]
  /\ nextId = 1
  /\ timers = {}
  /\ health = [d \in DaemonIds |-> NoHealth]
  /\ hmRunning = FALSE
  /\ disk = {}
  /\ workspaces = [d \in DaemonIds |-> NoWorkspace]
  /\ now = TickMs
  /\ halted = FALSE
  /\ log = <<>>
  /\ approvals = <<>>
  /\ pidfile = NoPid
  /\ sups = [s \in SupIds |-> [NoSup EXCEPT !.alive = (s = SelfPid)]]
  /\ bus = NoBus
  /\ heartbeatIntervalMs = HeartbeatIntervalMs
  /\ hmIntervalMs = HeartbeatIntervalMs

\* EventEmitterBus.connect: sets connected and registers one more listener on
\* the hub; _hubListener remembers the latest only.
busConnect(w, e) ==
  [w EXCEPT !.bus[e].connected = TRUE, !.bus[e].listeners = @ + 1]

\* EventEmitterBus.join
busJoin(w, e, c) == [w EXCEPT !.bus[e].channels = @ \cup {c}]

\* EventEmitterBus.disconnect: removes the listener _hubListener refers to.
busDisconnect(w, e) ==
  [w EXCEPT !.bus[e].connected = FALSE, !.bus[e].channels = {},
            !.bus[e].listeners = IF w.bus[e].connected /\ @ > 0 THEN @ - 1 ELSE @]

\* One hub listener of endpoint e runs on a message.
hubListener(w, e, from, target) ==
  IF target.kind = "#" /\ target.id \in w.bus[e].channels
  THEN IF from # e THEN EmitN(w, "message", e, from) ELSE w
  ELSE IF target.kind = "@" /\ target.id = e
  THEN EmitN(w, "message", e, from)
  ELSE w

RECURSIVE hubListeners(_, _, _, _, _)
hubListeners(w, e, k, from, target) ==
  IF k = 0 THEN w ELSE hubListeners(hubListener(w, e, from, target), e, k - 1, from, target)

\* hub.emit('bus-message', msg): every registered listener runs.
RECURSIVE hubEmit(_, _, _, _)
hubEmit(w, e, from, target) ==
  IF e \notin BusIds THEN w
  ELSE hubEmit(hubListeners(w, e, w.bus[e].listeners, from, target), e + 1, from, target)

\* EventEmitterBus.send
busSend(w, from, target) ==
  IF ~w.bus[from].connected THEN Throw(w) ELSE hubEmit(w, 1, from, target)

BusDo(w) ==
  /\ \A e \in BusIds : w.bus[e].listeners <= MaxListeners
  /\ Commit(w)

BusConnect == \E e \in BusIds : BusDo(busConnect(World, e))

BusJoin == \E e \in BusIds, c \in BusChannels : BusDo(busJoin(World, e, c))

BusSend == \E e \in BusIds, target \in Targets : BusDo(busSend(World, e, target))

BusDisconnect == \E e \in BusIds : BusDo(busDisconnect(World, e))

BusNext ==
  \/ BusConnect
  \/ BusJoin
  \/ BusSend
  \/ BusDisconnect

BusSpec == BusInit /\ [][BusNext]_vars

\* ================================================= heartbeat interval reload
\* The swarm under start, scale and stop while the operator reloads the
\* heartbeat interval; no task is assigned.
ReloadInterval ==
  /\ ~halted
  /\ \E h \in HeartbeatIntervals :
       Do(reloadConfig(World, [maxActive |-> Undefined, tokenBudget |-> Undefined,
                               heartbeatIntervalMs |-> h]))

IntervalNext ==
  \/ Start
  \/ Stop
  \/ Scale
  \/ ReloadInterval
  \/ Tick

IntervalSpec == Init /\ [][IntervalNext]_vars

\* ====================================================== promotion queue
\* A running supervisor with two idle daemons and one active slot, as after
\* start() and scale(2) with maxActive = 1.  Tasks are assigned, executors
\* end, and the operator reloads maxActive or tokenBudget; reloadConfig takes
\* any number, 0 included.
QueueInit ==
  /\ running = TRUE
  /\ maxActive = 1
  /\ \E b \in Budgeting : tokenBudget = b.tokenBudget /\ probe = b.probe
  /\ tokensUsed = 0
  /\ activeCount = 0
  /\ promotionsPaused = FALSE
  /\ promotionQueue = <<>>
  /\ processTable = [i \in 1..2 |->
                       [agentId |-> i, restartCount |-> 0, firstRestartAt |-> Null,
                        stableSince |-> TickMs, restartScheduled |-> FALSE]]
  /\ persist = FALSE
  /\ alertListeners = 1
  /\ daemons = [d \in DaemonIds |->
                 [NoDaemon EXCEPT !.name = d - 1, !.state = IDLE, !.wired = TRUE,
                                  !.role = "builder", !.hbTimer = TRUE]]
  /\ nextId = MaxDaemons + 1
  /\ timers = {}
  /\ health = [d \in DaemonIds |->
                [reg |-> TRUE, lastSeen |-> TickMs, status |-> "alive", consecutiveMisses |-> 0]]
  /\ hmRunning = TRUE
  /\ disk = {0, 1}
  /\ workspaces = [d \in DaemonIds |-> d - 1]
  /\ now = TickMs
  /\ halted = FALSE
  /\ log = <<>>
  /\ approvals = <<>>
  /\ pidfile = SelfPid
  /\ sups = [s \in SupIds |-> [NoSup EXCEPT !.alive = (s = SelfPid)]]
  /\ bus = NoBus
  /\ heartbeatIntervalMs = HeartbeatIntervalMs
  /\ hmIntervalMs = HeartbeatIntervalMs

QueueReload ==
  \E m \in {0} \cup MaxActiveValues \cup {Undefined}, b \in BudgetValues \cup {Undefined} :
    /\ m = Undefined \/ b = Undefined
    /\ m # Undefined \/ b # Undefined
    /\ Do(reloadConfig(World, [maxActive |-> m, tokenBudget |-> b,
                               heartbeatIntervalMs |-> Undefined]))

QueueNext ==
  \/ AssignTask
  \/ QueueReload
  \/ ExecutorExit
  \/ ExecutorError

QueueSpec == QueueInit /\ [][QueueNext]_vars

\* The same supervisor under the scheduling the event loop gives: an executor
\* that runs ends, with an exit or with an error.  The operator reloads
\* maxActive to 1 or 2 only.
QueueLiveNext ==
  \/ AssignTask
  \/ ReloadConfig
  \/ ExecutorExit
  \/ ExecutorError

QueueLiveSpec ==
  QueueInit /\ [][QueueLiveNext]_vars /\ WF_vars(ExecutorExit \/ ExecutorError)

\* ================================================================ claims
LogHas(ev) == \E i \in DOMAIN log : log[i].ev = ev

ActiveInTable ==
  {i \in 1..Len(processTable) : daemons[processTable[i].agentId].state = ACTIVE}

\* C1 (as stated): while the supervisor runs, the number of process-table
\* daemons in state active is at most the current maxActive.
C1_AdmissionCap == running => Cardinality(ActiveInTable) <= maxActive

\* C2: every promoting -> active transition happens with promotionsPaused
\* false; while promotionsPaused is true an ASSIGN to an idle daemon of the
\* table is denied (the daemon is idle again, an unclaim is emitted, nothing is
\* approved) and the queue drain approves nothing.
C2_NoPromotionUnderPause ==
  /\ \A i \in DOMAIN approvals : ~approvals[i].paused
  /\ promotionsPaused =>
       /\ \A d \in TableIds(World), task \in Tasks :
            daemons[d].state = IDLE =>
              LET w == assignTask(World, d, task) IN
                /\ w.daemons[d].state = IDLE
                /\ w.approvals = <<>>
                /\ \E i \in DOMAIN w.log : w.log[i].ev = "unclaim" /\ w.log[i].agent = d
       /\ processPromotionQueue(World).approvals = <<>>

\* C2 witness: promotions are paused while a daemon waits in the queue and
\* there is room under maxActive: only the pause keeps it from being approved.
C2_Witness ==
  /\ promotionsPaused
  /\ promotionQueue # <<>>
  /\ activeCount < maxActive
  /\ \E d \in TableIds(World) : daemons[d].state = PROMOTING

\* C3: between operations it is never the case that the promotion queue is
\* non-empty, activeCount < maxActive and promotionsPaused is false.
C3_QueueLiveness ==
  ~(promotionQueue # <<>> /\ activeCount < maxActive /\ ~promotionsPaused)

\* C3 witness: a demotion has just drained the queue, admitting its head.
C3_Witness ==
  /\ LogHas("agent_demoted")
  /\ approvals # <<>>
  /\ promotionQueue = <<>>

\* C4: a daemon's executor count grows only in a step that starts from state
\* promoting and approves; in any other state approvePromotion changes nothing
\* and emits exactly one error event, and denyPromotion changes and emits nothing.
C4_NoExecutorWithoutApproval ==
  /\ [][\A d \in DaemonIds :
          daemons'[d].live > daemons[d].live =>
            daemons[d].state = PROMOTING /\ approvals' # <<>>]_vars
  /\ [](\A d \in Constructed :
          daemons[d].state # PROMOTING =>
            /\ \A task \in DaemonTasks \cup {NullTask} :
                 LET w == approvePromotion(World, d, task) IN
                   /\ [w EXCEPT !.log = <<>>] = World
                   /\ Len(w.log) = 1 /\ w.log[1].ev = "error" /\ w.log[1].agent = d
            /\ denyPromotion(World, d, "denied") = World)

\* C4 witness: approvePromotion was called on a daemon that is already active;
\* it emitted the error and the daemon still has its one executor.
C4_Witness ==
  \E d \in Constructed :
    /\ daemons[d].state = ACTIVE
    /\ daemons[d].live = 1
    /\ Len(log) = 1 /\ log[1].ev = "error" /\ log[1].agent = d

\* C5 (as stated): a daemon never has more than one live executor process.
C5_AtMostOneExecutor == \A d \in DaemonIds : daemons[d].live <= 1

\* What scale(T) leaves of the daemons that were not idle: in the table, untouched.
ScalePreserves(T) ==
  LET w == scale(World, T) IN
    \A d \in TableIds(World) :
      daemons[d].state # IDLE => d \in TableIds(w) /\ w.daemons[d] = daemons[d]

\* C6 (as stated): for every scale(T) with T below the process-table size, no
\* daemon whose state is not idle is stopped or removed.
C6_ScaleDownPreservesActive ==
  (running /\ ~halted) =>
    \A T \in 0..MaxDaemons : T < Len(processTable) => ScalePreserves(T)

\* C6 (amended): for every scale(T) with 0 < T < process-table size, no daemon
\* whose state is not idle is stopped or removed; scale(0) is stop().
C6_ScaleDownPreservesActiveAboveZero ==
  (running /\ ~halted) =>
    /\ \A T \in 1..MaxDaemons : T < Len(processTable) => ScalePreserves(T)
    /\ [scale(World, 0) EXCEPT !.log = <<>>] = [stop(World) EXCEPT !.log = <<>>]

\* C6 witness: a scale-down has removed a daemon and an active one is still
\* in the table.
C6_Witness ==
  /\ \E i \in DOMAIN log : log[i].ev = "scaled_down" /\ log[i].n >= 1
  /\ ActiveInTable # {}

CrashHandled(a) ==
  \E i \in DOMAIN log' :
    log'[i].agent = a /\ log'[i].ev \in {"agent_restart_scheduled", "agent-degraded"}

C8_RestartPreservesFleet ==
  [][\A t \in timers :
       (running /\ t \notin timers' /\ HasEntry(World, t.agentId)) =>
         /\ Len(processTable') = Len(processTable)
         /\ \E i \in 1..Len(processTable') :
              LET e2 == processTable'[i] IN
                /\ e2.agentId # t.agentId
                /\ daemons'[e2.agentId].name = daemons[t.agentId].name
                /\ e2.restartCount = t.restartCount
                /\ e2.firstRestartAt = t.firstRestartAt]_vars

BudgetReasons == {"promotions paused (budget/quota)", "token budget exhausted"}

\* An ASSIGN for the idle daemon d ends denied for a budget reason.
DeniedForBudget(w, d) ==
  /\ w.daemons[d].state = IDLE
  /\ w.approvals = <<>>
  /\ \E i \in DOMAIN w.log :
       w.log[i].ev = "unclaim" /\ w.log[i].agent = d /\ w.log[i].info \in BudgetReasons

IdleInTable == {d \in TableIds(World) : daemons[d].state = IDLE}

\* C9: with a probe of budget B > 0 attached, a recorded result that brings the
\* total to B or more makes the probe emit budget_exhausted and leaves
\* promotionsPaused true; while promotionsPaused is true every ASSIGN to an idle
\* daemon of the table, direct or from the bus, is denied with a reason that
\* contains "budget"; and promotionsPaused becomes false only in a reloadConfig
\* that sets a tokenBudget above tokensUsed.
C9_BudgetExhaustionPauses ==
  /\ [][(/\ probe.attached /\ probe.budget > 0
          /\ probe'.totalTokens >= probe.budget
          /\ \E i \in DOMAIN log' : log'[i].ev \in {"done", "fail"})
        => (promotionsPaused' /\ \E i \in DOMAIN log' : log'[i].ev = "budget_exhausted")]_vars
  /\ [](promotionsPaused =>
          \A d \in IdleInTable, task \in Tasks :
            /\ DeniedForBudget(assignTask(World, d, task), d)
            /\ DeniedForBudget(
                 routeMessage(World, [content |-> Stringify([type |-> "ASSIGN", agentId |-> d,
                                                            task |-> task])]), d))
  /\ [][(promotionsPaused /\ ~promotionsPaused') =>
          /\ \E i \in DOMAIN log' : log'[i].ev = "config_reloaded tokenBudget"
          /\ tokenBudget' > tokensUsed']_vars

\* C9 witness: the probe's total has reached its budget, promotions are
\* paused, and an ASSIGN has just been denied for it.
C9_Witness ==
  /\ probe.attached /\ probe.budget > 0 /\ probe.totalTokens >= probe.budget
  /\ promotionsPaused
  /\ \E i \in DOMAIN log : log[i].ev = "unclaim" /\ log[i].info \in BudgetReasons

\* C10 (as stated): while tokenBudget is 0 no promotion request is denied for
\* a budget reason and promotions are not paused.
C10_ZeroBudgetDisablesGating ==
  tokenBudget = 0 =>
    /\ ~promotionsPaused
    /\ \A d \in IdleInTable, task \in Tasks :
         ~DeniedForBudget(assignTask(World, d, task), d)

\* C11 (as stated): of two supervisors configured with the same pidfile path,
\* at most one is running at any time, under every interleaving of the steps
\* of their start() calls.
C11_PidfileMutualExclusion ==
  Cardinality({s \in SupIds : sups[s].alive /\ sups[s].running}) <= 1

\* C12: stop() on a running supervisor ends with running false, the process
\* table and the promotion queue empty, activeCount 0, no agent registered with
\* the health monitor, and the pidfile removed if it named this process;
\* stop() on a supervisor that is not running changes nothing.
C12_ShutdownPostState ==
  LET w == stop(World)
  IN IF running
     THEN /\ ~w.running
          /\ w.processTable = <<>>
          /\ w.promotionQueue = <<>>
          /\ w.activeCount = 0
          /\ \A d \in DaemonIds : ~w.health[d].reg
          /\ w.pidfile = IF pidfile = SelfPid THEN NoPid ELSE pidfile
     ELSE w = World

\* stop() has just run on a supervisor that had daemons in its table.
C12_Witness ==
  /\ LogHas("swarm_stopped") /\ LogHas("stopped")
  /\ ~running /\ processTable = <<>> /\ pidfile = NoPid

\* C13 (as stated): an executor that has run longer than maxTaskDurationMs is
\* terminated by the supervisor: no daemon is still active with its executor
\* once the executor has run for twice maxTaskDurationMs.
C13_ExecutorWatchdog ==
  (daemons[1].state = ACTIVE /\ daemons[1].claudeProcess /\ daemons[1].live > 0)
    => now - WatchStart <= 2 * MaxTaskDurationMs

\* The daemon state changes the specification allows, and what a handler that
\* makes several of them in a row may do to the state between two steps.
ValidTransitions ==
  {<<IDLE, PROMOTING>>, <<PROMOTING, ACTIVE>>, <<PROMOTING, IDLE>>,
   <<ACTIVE, DEMOTING>>, <<DEMOTING, IDLE>>, <<ACTIVE, CRASHED>>}

RECURSIVE ValidPathsWithin(_)
ValidPathsWithin(n) ==
  IF n = 1 THEN ValidTransitions
  ELSE LET P == ValidPathsWithin(n - 1)
       IN P \cup {t \in DaemonState \X DaemonState :
                    \E m \in DaemonState : <<t[1], m>> \in P /\ <<m, t[2]>> \in ValidTransitions}

ValidPaths == ValidPathsWithin(Cardinality(DaemonState))

\* C14 (as stated): every change of a daemon's state made by one handler is
\* one of idle -> promoting, promoting -> active, promoting -> idle,
\* active -> demoting, demoting -> idle, active -> crashed, or several of
\* these in a row.
C14_ValidTransitions ==
  [][\A d \in DaemonIds :
       (daemons[d].state # NONE /\ daemons'[d].state # daemons[d].state)
         => <<daemons[d].state, daemons'[d].state>> \in ValidPaths]_vars

\* C15 (as stated): in the events a daemon emits, a done or a fail is followed
\* by demoted of the same daemon.
C15_LifecycleEventOrder ==
  \A i \in DOMAIN log :
    log[i].ev \in {"done", "fail"}
      => \E j \in DOMAIN log :
           j > i /\ log[j].ev = "demoted" /\ log[j].agent = log[i].agent

\* The first position of an event of a daemon among the emitted events, 0 if
\* there is none.
FirstEvent(events, ev, d) ==
  LET S == {i \in DOMAIN events : events[i].ev = ev /\ events[i].agent = d}
  IN IF S = {} THEN 0 ELSE CHOOSE i \in S : \A j \in S : i <= j

ExitHandled(d, code, tokens) ==
  LET w == onChildExit(World, d, code, tokens)
      result == FirstEvent(w.log, IF code = 0 THEN "done" ELSE "fail", d)
      other == FirstEvent(w.log, IF code = 0 THEN "fail" ELSE "done", d)
  IN /\ result > 0 /\ other = 0
     /\ FirstEvent(w.log, "demoted", d) > result
     /\ FirstEvent(w.log, "crashed", d) = 0
     /\ FirstEvent(w.log, "agent_restart_scheduled", d) = 0
     /\ FirstEvent(w.log, "agent-degraded", d) = 0
     /\ w.timers = timers
     /\ \A i \in DOMAIN w.processTable :
          w.processTable[i].agentId = d => w.processTable[i] = processTable[EntryIndex(World, d)]
     /\ w.daemons[d].state = IDLE
     /\ w.daemons[d].currentTask = NullTask
     /\ w.daemons[d].hbTimer

\* C16: when the executor of an active daemon exits with code c, the daemon
\* emits done if c = 0 and fail otherwise, then demoted, and is idle with
\* currentTask cleared and its heartbeat running; it is never crashed and no
\* crash recovery (restart scheduling, degradation) is started for it.
C16_ExitIsNormalOutcome ==
  \A d \in DaemonIds, code \in {0, 1}, tokens \in TokenAmounts :
    (daemons[d].state = ACTIVE /\ daemons[d].live > 0) => ExitHandled(d, code, tokens)

\* An executor has just exited with a non-zero code and its daemon is idle.
C16_Witness ==
  \E i \in DOMAIN log :
    /\ log[i].ev = "fail" /\ log[i].info = "exit"
    /\ daemons[log[i].agent].state = IDLE
    /\ HasEntry(World, log[i].agent)
    /\ FirstEvent(log, "demoted", log[i].agent) > i

AlertCount(events, a) ==
  Cardinality({i \in DOMAIN events : events[i].ev = "alert" /\ events[i].agent = a})

HealthDelays == {0, HeartbeatIntervalMs, MissThreshold * HeartbeatIntervalMs}

\* Three check() calls, the given delays apart, with no heartbeat in between.
ChecksWithoutHeartbeat(d1, d2) == hmCheck(Later(hmCheck(Later(hmCheck(World), d1)), d2))

\* C17: check() emits at most one unresponsive alert for an agent's record as
\* long as no heartbeat of that agent arrives, however many checks run and
\* however long the silence lasts; after a heartbeat of a dead agent a new
\* silence of missThreshold intervals is alerted again.
C17_SingleShotAlert ==
  \A a \in DaemonIds :
    /\ \A d1 \in HealthDelays, d2 \in HealthDelays :
         /\ AlertCount(ChecksWithoutHeartbeat(d1, d2).log, a) <= 1
         /\ health[a].status = "dead" => AlertCount(ChecksWithoutHeartbeat(d1, d2).log, a) = 0
    /\ health[a].status = "dead" =>
         AlertCount(hmCheck(Later(hmHeartbeat(World, a),
                                  MissThreshold * HeartbeatIntervalMs)).log, a) = 1

\* A check has just run over a record that is dead and still silent, and has
\* emitted no further alert for it.
C17_Witness ==
  \E a \in DaemonIds :
    /\ LogHas("check") /\ AlertCount(log, a) = 0
    /\ health[a].status = "dead"
    /\ health[a].consecutiveMisses > MissThreshold

\* C18: for every registered agent, whatever its status, heartbeat(agentId)
\* leaves consecutiveMisses = 0 and status = alive.
C18_HeartbeatReset ==
  \A a \in DaemonIds :
    health[a].reg =>
      LET h == hmHeartbeat(World, a).health[a]
      IN h.consecutiveMisses = 0 /\ h.status = "alive" /\ h.reg

\* A heartbeat has just arrived for a record that was dead.
C18_Witness ==
  \E a \in DaemonIds :
    /\ \E i \in DOMAIN log :
         log[i].ev = "heartbeat" /\ log[i].agent = a /\ log[i].info = "dead"
    /\ health[a].status = "alive" /\ health[a].consecutiveMisses = 0

\* Announced tasks: of the daemon's role, of another role, of the role
\* general, and without a role.
RoleTasks ==
  {[role |-> r, prompt |-> "ok"] : r \in {"builder", "auditor", "general", "-"}}

Claims(w, d) == FirstEvent(w.log, "claim", d) > 0

\* C19: a TASK_AVAILABLE message makes a daemon emit claim exactly when the
\* daemon is idle and either its role is general or the task's role is the
\* daemon's role; a task without a role is claimed by general daemons only,
\* and a daemon that is not idle claims nothing.
C19_RoleMatching ==
  \A d \in Constructed, task \in RoleTasks, to \in DaemonIds \cup {NoId} :
    LET w == handleMessage(World, d, [type |-> "TASK_AVAILABLE", agentId |-> to,
                                      task |-> task])
    IN /\ Claims(w, d) <=>
            /\ daemons[d].state = IDLE
            /\ daemons[d].role = "general" \/ task.role = daemons[d].role
       /\ w.daemons = daemons

\* An idle daemon of role general has just claimed an announced task.
C19_Witness ==
  \E i \in DOMAIN log :
    /\ log[i].ev = "claim"
    /\ daemons[log[i].agent].state = IDLE
    /\ daemons[log[i].agent].role = "general"

\* C20: record() and setBudget() never lower the probe's totalTokens, whatever
\* the result recorded (explicit counts that are absent, negative or zero
\* included) and whatever the new budget; a step that lowers it is a reset(),
\* and leaves it at 0.
C20_BudgetMonotonicity ==
  /\ [][probe'.totalTokens < probe.totalTokens
          => /\ probe'.totalTokens = 0
             /\ \E i \in DOMAIN log' : log'[i].ev = "reset"]_vars
  /\ [](/\ \A result \in Results :
             record(World, result).probe.totalTokens >= probe.totalTokens
        /\ \A b \in BudgetValues :
             setBudget(World, b).probe.totalTokens = probe.totalTokens
        /\ reset(World).probe.totalTokens = 0)

\* record() has just raised a total that an earlier record() had raised.
C20_Witness ==
  /\ LogHas("record") /\ LogHas("budget_exhausted")
  /\ probe.totalTokens > probe.budget

EventCount(events, ev) == Cardinality({i \in DOMAIN events : events[i].ev = ev})

Recorded == {result \in Results : result.agentId # NoId}

\* The utilization total / budget is at or above the warning threshold.
AtWarning(total, budget) == 100 * total >= WarningPct * budget

RecordThresholds(result) ==
  LET w == record(World, result)
      total == w.probe.totalTokens
      budget == probe.budget
      exhausted == EventCount(w.log, "budget_exhausted")
      warning == EventCount(w.log, "budget_warning")
  IN /\ exhausted = IF budget > 0 /\ total >= budget THEN 1 ELSE 0
     /\ warning = IF /\ budget > 0 /\ total < budget /\ AtWarning(total, budget)
                     /\ ~probe.warningEmitted
                  THEN 1 ELSE 0
     /\ w.probe.warningEmitted = (probe.warningEmitted \/ warning = 1)

\* C21: with budget > 0 every record that leaves total >= budget emits
\* budget_exhausted; budget_warning is emitted only by a record that leaves
\* the total at or above the threshold and below the budget, and only with the
\* latch open; the record closes the latch, two records in a row never warn
\* twice, and the latch is opened again only by reset() or by a setBudget()
\* that leaves the utilization below the threshold.
C21_QuotaThresholdEvents ==
  /\ [](\A r1 \in Recorded :
          /\ RecordThresholds(r1)
          /\ \A r2 \in Recorded :
               EventCount(record(record(World, r1), r2).log, "budget_warning") <= 1)
  /\ [][(probe.warningEmitted /\ ~probe'.warningEmitted)
          => \/ \E i \in DOMAIN log' : log'[i].ev = "reset"
             \/ /\ \E i \in DOMAIN log' : log'[i].ev = "setBudget"
                /\ probe'.budget > 0
                /\ ~AtWarning(probe'.totalTokens, probe'.budget)]_vars

\* A record has just emitted the warning: the total is in the warning band
\* and the latch is closed.
C21_Witness ==
  /\ LogHas("record") /\ LogHas("budget_warning")
  /\ probe.warningEmitted
  /\ probe.totalTokens < probe.budget

Delivered(w, e) == FirstEvent(w.log, "message", e) > 0

\* C22 (as stated): a message sent on the in-process bus is delivered to an
\* endpoint exactly when that endpoint is connected and either the target is
\* a channel it has joined and it is not the sender, or the target is @ its
\* agentId.
C22_BusDeliveryPredicate ==
  \A from \in BusIds, target \in Targets, e \in BusIds :
    bus[from].connected =>
      (Delivered(busSend(World, from, target), e)
         <=> /\ bus[e].connected
             /\ \/ target.kind = "#" /\ target.id \in bus[e].channels /\ e # from
                \/ target.kind = "@" /\ target.id = e)

TableNames(w) == {w.daemons[w.processTable[i].agentId].name : i \in DOMAIN w.processTable}

\* C23 (as stated): on a running supervisor scale(target) with target above
\* the table size completes, leaves target daemons with pairwise distinct
\* names in the process table and reports target - current added daemons.
C23_ScaleUpReachesTarget ==
  \A target \in 1..MaxDaemons :
    (running /\ ~halted /\ target > Len(processTable)) =>
      LET w == scale(World, target)
      IN InBounds(w) =>
           /\ ~w.thrown
           /\ Len(w.processTable) = target
           /\ Cardinality(TableNames(w)) = target
           /\ \E i \in DOMAIN w.log :
                w.log[i].ev = "scaled_up" /\ w.log[i].n = target - Len(processTable)

\* Configurations a reload can carry: each field either absent or a new value.
ReloadConfigs ==
  [maxActive : MaxActiveValues \cup {Undefined}, tokenBudget : BudgetValues \cup {Undefined},
   heartbeatIntervalMs : HeartbeatIntervals \cup {Undefined}]

\* The requests reloadConfig took off the queue, as positions of the old queue.
Dequeued(w) == 1..(Len(promotionQueue) - Len(w.promotionQueue))

\* C24: reloadConfig leaves promotionsPaused set exactly when it was set and no
\* token budget above tokensUsed was supplied; when it returns, the queue is
\* empty, or the active slots are full, or promotions are paused; it only takes
\* requests off the head of the queue, and every request it took whose daemon was
\* promoting is active and was approved within the call, never more of them
\* than the headroom maxActive - activeCount under the new limits.
C24_ReloadAppliesHeadroom ==
  \A cfg \in ReloadConfigs :
    ~halted =>
      LET w == reloadConfig(World, cfg)
          newMax == IF cfg.maxActive # Undefined THEN cfg.maxActive ELSE maxActive
      IN /\ w.promotionsPaused =
              (promotionsPaused /\ ~(cfg.tokenBudget # Undefined /\ cfg.tokenBudget > tokensUsed))
         /\ w.promotionsPaused \/ w.promotionQueue = <<>> \/ w.activeCount >= w.maxActive
         /\ Len(w.promotionQueue) <= Len(promotionQueue)
         /\ w.promotionQueue = SubSeq(promotionQueue, Len(promotionQueue) - Len(w.promotionQueue) + 1,
                                      Len(promotionQueue))
         /\ \A i \in Dequeued(w) :
              LET d == promotionQueue[i].agentId
              IN (HasEntry(World, d) /\ daemons[d].state = PROMOTING) =>
                   /\ w.daemons[d].state = ACTIVE
                   /\ \E k \in DOMAIN w.approvals : w.approvals[k].agent = d
         /\ \A k \in DOMAIN w.approvals :
              \E i \in Dequeued(w) : promotionQueue[i].agentId = w.approvals[k].agent
         /\ Len(w.approvals) <= Max(0, newMax - activeCount)

\* A reload has just raised the limit or lifted the pause and a queued daemon
\* was promoted within the same call.
C24_Witness ==
  /\ \E i \in DOMAIN log : log[i].ev \in {"config_reloaded maxActive", "config_reloaded tokenBudget"}
  /\ \E i \in DOMAIN log : log[i].ev = "promoted" /\ daemons[log[i].agent].state = ACTIVE

\* Tasks a message can carry: of the daemon's role, of another role, of no
\* role, with a prompt the executor cannot be started on, and none at all.
InertTasks == DaemonTasks \cup {[role |-> "tester", prompt |-> "ok"], NullTask}

InertMessages == [type : MessageTypes, agentId : DaemonIds, task : InertTasks]

\* The events a daemon emits.
DaemonEvents ==
  {"started", "stopped", "heartbeat", "claim", "promote-request", "unclaim", "promoted",
   "done", "fail", "demoted", "crashed", "error"}

\* Daemon e is as it was and has emitted nothing.
Untouched(w, e) ==
  /\ w.daemons[e] = daemons[e]
  /\ \A i \in DOMAIN w.log : ~(w.log[i].agent = e /\ w.log[i].ev \in DaemonEvents)

\* C25: an idle daemon of the table that is handed a message either is the
\* addressee of an ASSIGN, and then emits promote-request first and has left
\* idle unless the request was denied; or is handed a TASK_AVAILABLE matching
\* its role, and then emits claim and nothing else changes; or nothing happens
\* at all.  A clock tick makes idle daemons emit heartbeats only and changes no
\* daemon.  Bus content that is empty, is not JSON, is null or is an object of
\* another type changes nothing and emits nothing.  An ASSIGN for daemon X,
\* direct or from the bus, leaves every other daemon untouched.
C25_IdleDaemonsInert ==
  /\ \A d \in IdleInTable, msg \in InertMessages :
       LET w == handleMessage(World, d, msg) IN
       IF msg.type = "ASSIGN" /\ msg.agentId = d
       THEN /\ Len(w.log) >= 1
            /\ w.log[1].ev = "promote-request" /\ w.log[1].agent = d
            /\ \/ w.daemons[d].state # IDLE
               \/ \E i \in DOMAIN w.log : w.log[i].ev = "unclaim" /\ w.log[i].agent = d
            /\ \A e \in DaemonIds \ {d} : Untouched(w, e)
       ELSE IF msg.type = "TASK_AVAILABLE" /\ matchesRole(daemons[d].role, msg.task)
       THEN /\ [w EXCEPT !.log = <<>>] = World
            /\ Len(w.log) = 1 /\ w.log[1].ev = "claim" /\ w.log[1].agent = d
       ELSE w = World
  /\ LET w == tick(World) IN
       /\ w.daemons = daemons
       /\ \A i \in DOMAIN w.log :
            (w.log[i].ev \in DaemonEvents /\ w.log[i].agent \in IdleInTable)
              => w.log[i].ev = "heartbeat"
  /\ \A c \in BusContents :
       (c.kind # "object" \/ c.type \notin {"ASSIGN", "TASK_AVAILABLE"})
         => onBusMessage(World, [content |-> c], Max(1, alertListeners)) = World
  /\ \A x \in DaemonIds, task \in InertTasks :
     \A e \in DaemonIds \ {x} :
       /\ Untouched(onBusMessage(World,
                                 [content |-> Stringify([type |-> "ASSIGN", agentId |-> x,
                                                         task |-> task])],
                                 Max(1, alertListeners)), e)
       /\ Untouched(assignTask(World, x, task), e)

\* An ASSIGN from the bus has just made its addressee request promotion while
\* another daemon of the table stayed idle.
C25_Witness ==
  /\ \E i \in DOMAIN log : log[i].ev = "message_routed" /\ log[i].info = "ASSIGN"
  /\ \E d \in TableIds(World), e \in IdleInTable :
       /\ d # e
       /\ \E i \in DOMAIN log : log[i].ev = "promote-request" /\ log[i].agent = d

\* C26 (as stated): every heartbeat a daemon has just emitted carries the
\* status idle, and its emitter is idle.
C26_HeartbeatsOnlyWhileIdle ==
  \A i \in DOMAIN log :
    log[i].ev = "heartbeat" =>
      /\ log[i].info = IDLE
      /\ daemons[log[i].agent].state = IDLE

\* C27 (as stated): the health monitor's miss unit and the heartbeat interval
\* of every daemon of the table equal the supervisor's heartbeatIntervalMs,
\* which is the value last given to reloadConfig.
C27_IntervalAgreement ==
  /\ hmIntervalMs = heartbeatIntervalMs
  /\ \A d \in TableIds(World) : daemons[d].heartbeatIntervalMs = heartbeatIntervalMs

\* C28 (as stated): between operations activeCount is the number of daemons of
\* the process table whose state is active.
C28_ActiveCountTracksReality ==
  activeCount = Cardinality(ActiveInTable)

\* The executor of daemon 1 runs and has not run longer than maxTaskDurationMs.
TaskWithinDuration ==
  /\ daemons[1].state = ACTIVE /\ daemons[1].claudeProcess /\ daemons[1].live > 0
  /\ now - WatchStart <= MaxTaskDurationMs

\* C29 (as stated): while its executor runs within maxTaskDurationMs an active
\* daemon is not dead for the health monitor and has no crash restart
\* scheduled; and a check made right after a demotion, before the next
\* heartbeat, does not declare the demoted daemon dead.
C29_ActiveSafeFromTimeouts ==
  /\ TaskWithinDuration =>
       /\ health[1].status # "dead"
       /\ \A t \in timers : t.agentId # 1
  /\ (\E i \in DOMAIN log : log[i].ev = "demoted" /\ log[i].agent = 1) =>
       LET w == hmCheck(World)
       IN \A i \in DOMAIN w.log : ~(w.log[i].ev = "alert" /\ w.log[i].agent = 1)

\* C30 (as stated): at every approval the handler just made, the supervisor had
\* no token budget or had used less than its budget.
C30_BudgetGateOnAdmission ==
  \A i \in DOMAIN approvals :
    approvals[i].tokenBudget = 0 \/ approvals[i].tokensUsed < approvals[i].tokenBudget

\* The entries of the process table that wait for their restart timer.
RestartPending == {i \in DOMAIN processTable : processTable[i].restartScheduled}

\* C31: while an entry has restartScheduled set, a crash notification for its
\* agent, from the daemon's crashed event or from a heartbeat-timeout alert,
\* changes nothing at all (no counter, no timer, no log record), and no
\* entry of the table has more than one restart timer pending.
C31_RestartIdempotent ==
  /\ \A i \in RestartPending :
       LET a == processTable[i].agentId IN
       /\ handleCrash(World, a) = World
       /\ handleHealthAlert(World, a, Max(1, alertListeners)) = World
  /\ \A a \in TableIds(World) : Cardinality({t \in timers : t.agentId = a}) <= 1

\* A restart is pending for a crashed daemon and the heartbeat-timeout alert
\* that has just been raised for it scheduled nothing.
C31_Witness ==
  \E i \in RestartPending :
    LET a == processTable[i].agentId IN
    /\ \E t \in timers : t.agentId = a
    /\ \E j \in DOMAIN log : log[j].ev = "alert" /\ log[j].agent = a
    /\ ~LogHas("agent_restart_scheduled")

C33_StopCancelsTimers ==
  \A t \in timers :
    (t.afterStop /\ t.fireAt <= now) =>
      restartFire(World, t) = [World EXCEPT !.timers = @ \ {t}]

\* The queue changes only by requests leaving at its head or one request
\* joining at its tail, so its order is the order of arrival.
QueueDiscipline ==
  \/ \E k \in 0..Len(promotionQueue) :
       promotionQueue' = SubSeq(promotionQueue, k + 1, Len(promotionQueue))
  \/ /\ Len(promotionQueue') = Len(promotionQueue) + 1
     /\ SubSeq(promotionQueue', 1, Len(promotionQueue)) = promotionQueue

\* Daemon d waits in the table for its promotion.
Waiting(d) == HasEntry(World, d) /\ daemons[d].state = PROMOTING

\* Position of daemon d among the approvals of the step, 0 if it has none.
ApprovedAt(d) ==
  IF \E k \in DOMAIN approvals' : approvals'[k].agent = d
  THEN CHOOSE k \in DOMAIN approvals' : approvals'[k].agent = d
  ELSE 0

Stuck(d) ==
  /\ running /\ Waiting(d)
  /\ timers = {}
  /\ \A e \in DaemonIds : daemons[e].live = 0

\* C35 (as stated): once every executor has ended and every timer has fired,
\* no daemon of a running supervisor stays promoting for ever.
C35_PromotionsResolve ==
  \A d \in DaemonIds : []<>(~Stuck(d))

\* Position of the first event ev in a sequence of events, 0 if there is none.
EventAt(events, ev) ==
  IF \E i \in DOMAIN events : events[i].ev = ev
  THEN CHOOSE i \in DOMAIN events :
         events[i].ev = ev /\ \A j \in DOMAIN events : events[j].ev = ev => i <= j
  ELSE 0

\* C36: with a probe of budget B > 0 attached, when the exit of a table
\* daemon's executor brings the probe's total to B or more, the handler ends
\* with tokensUsed equal to the total and promotionsPaused set, reports
\* budget_exhausted before the daemon's demoted event, and approves nobody.
C36_PauseBeforeDrain ==
  \A d \in TableIds(World), code \in {0, 1}, tokens \in TokenAmounts :
    (probe.attached /\ probe.budget > 0 /\ daemons[d].live > 0
       /\ probe.totalTokens + tokens >= probe.budget) =>
      LET w == onChildExit(World, d, code, tokens) IN
      /\ w.tokensUsed = probe.totalTokens + tokens
      /\ w.tokensUsed = w.probe.totalTokens
      /\ w.promotionsPaused
      /\ EventAt(w.log, "budget_exhausted") > 0
      /\ EventAt(w.log, "budget_exhausted") < EventAt(w.log, "demoted")
      /\ w.approvals = <<>>

\* An exit has just exhausted the budget while another daemon waited in the
\* queue and a slot came free: promotions are paused and nobody was approved.
C36_Witness ==
  /\ EventAt(log, "budget_exhausted") > 0
  /\ EventAt(log, "budget_exhausted") < EventAt(log, "demoted")
  /\ promotionsPaused /\ tokensUsed = probe.totalTokens
  /\ activeCount < maxActive
  /\ promotionQueue # <<>> /\ Waiting(promotionQueue[1].agentId)
  /\ approvals = <<>>

\* The daemons that were stopped and removed from the process table.
Removed == {d \in DaemonIds : daemons[d].state # NONE /\ ~HasEntry(World, d)}

\* Handler outcome w left the removed daemon d silent and the supervisor's
\* counters as they were.
Silent(w, d) ==
  /\ \A i \in DOMAIN w.log : ~(w.log[i].agent = d /\ w.log[i].ev \in DaemonEvents)
  /\ ~w.daemons[d].hbTimer
  /\ w.activeCount = activeCount
  /\ w.promotionQueue = promotionQueue
  /\ w.tokensUsed = tokensUsed

\* C37 (as stated): when the exit or the error of an executor started earlier
\* arrives for a daemon that was stopped and removed from the table, the daemon
\* emits nothing, starts no heartbeat timer, and activeCount, the queue and
\* tokensUsed stay as they are.
C37_StoppedDaemonSilent ==
  \A d \in Removed :
    daemons[d].live > 0 =>
      /\ \A code \in {0, 1}, tokens \in TokenAmounts : Silent(onChildExit(World, d, code, tokens), d)
      /\ Silent(onChildError(World, d), d)

\* The claim events daemon d emitted in the last handler.
ClaimCount(events, d) ==
  Cardinality({i \in DOMAIN events : events[i].ev = "claim" /\ events[i].agent = d})

\* Handler outcome w handed the task to the table daemons once: each idle
\* daemon whose role matches has claimed it once, and nobody else has.
ClaimedOnce(w, task) ==
  \A d \in TableIds(World) :
    ClaimCount(w.log, d) =
      IF daemons[d].state = IDLE /\ matchesRole(daemons[d].role, task) THEN 1 ELSE 0

\* C38 (as stated): whatever start()/stop() cycles came before, one
\* TASK_AVAILABLE message, arriving on the bus or passed to broadcastTask, is
\* routed once and yields exactly one claim per idle role-matching daemon of
\* the table.
C38_TaskHandedOnce ==
  (running /\ ~halted) =>
    \A task \in Tasks :
      LET msg == [type |-> "TASK_AVAILABLE", agentId |-> NoId, task |-> task]
          viaBus == onBusMessage(World, [content |-> Stringify(msg)], alertListeners)
          viaBroadcast == broadcastTask(World, task)
      IN /\ EventCount(viaBus.log, "message_routed") = 1
         /\ ClaimedOnce(viaBus, task)
         /\ ClaimedOnce(viaBroadcast, task)

\* The message events endpoint e emitted in the last handler.
Deliveries(events, e) ==
  Cardinality({i \in DOMAIN events : events[i].ev = "message" /\ events[i].agent = e})

\* C39 (as stated): after any sequence of connect, join, send and disconnect,
\* repeated connects included, a sent message is delivered to an endpoint at
\* most once, and not at all to an endpoint that has disconnected and has not
\* connected again.
C39_AtMostOnceDelivery ==
  \A from \in BusIds, target \in Targets, e \in BusIds :
    bus[from].connected =>
      LET n == Deliveries(busSend(World, from, target).log, e)
      IN /\ n <= 1
         /\ ~bus[e].connected => n = 0

\* The heartbeat intervals agent a has missed: floor((now - lastSeen) / interval).
Missed(a) == (now - health[a].lastSeen) \div hmIntervalMs

\* C40 (as stated): check() sets a registered record that is not yet dead to
\* dead, with one unresponsive alert, exactly when the record has missed
\* missThreshold heartbeat intervals or more; otherwise it sets the record to
\* unresponsive, with no alert, exactly when the record has missed one
\* interval or more, the boundary now - lastSeen = heartbeatInterval included.
C40_CheckThresholds ==
  \A a \in DaemonIds :
    (health[a].reg /\ health[a].status # "dead") =>
      LET w == hmCheck(World) IN
      /\ (w.health[a].status = "dead") <=> (Missed(a) >= MissThreshold)
      /\ AlertCount(w.log, a) = IF Missed(a) >= MissThreshold THEN 1 ELSE 0
      /\ Missed(a) < MissThreshold =>
           w.health[a].status = IF Missed(a) >= 1 THEN "unresponsive" ELSE health[a].status

====
